---- MODULE Spec2Model ----
(***************************************************************************)
(* Model of agent-standards-mcp: the frontmatter parser, the validation    *)
(* policy, the file standards repository (FileStandardLoader) and the MCP  *)
(* tool handlers.                                                          *)
(*                                                                         *)
(* Go strings are modelled as sequences of one-character strings, so that  *)
(* prefix tests, splitting, trimming, joining and path cleaning are        *)
(* computed the way the code computes them.                                *)
(***************************************************************************)
EXTENDS Integers, Sequences, FiniteSets, TLC

VARIABLES fs, env, loader, call

vars == <<fs, env, loader, call>>

(***************************************************************************)
(* Characters and string helpers (package strings).                        *)
(***************************************************************************)
NL == "\n"
CR == "\r"
SP == " "
QUOTE == "\""

\* The element of a one-element set, and the value v bound to the parameter of
\* F: a local variable that is computed once.
Only(S) == CHOOSE x \in S : TRUE
Bind(v, F(_)) == Only({ F(x) : x \in {v} })

\* unicode.IsSpace restricted to the characters of the model
IsSpace(c) == c \in {SP, NL, CR, "\t"}

\* strings.HasPrefix
HasPrefix(s, prefix) ==
    /\ Len(s) >= Len(prefix)
    /\ SubSeq(s, 1, Len(prefix)) = prefix

RECURSIVE TrimLeft(_)
TrimLeft(s) ==
    IF s # <<>> /\ IsSpace(Head(s)) THEN TrimLeft(Tail(s)) ELSE s

RECURSIVE TrimRight(_)
TrimRight(s) ==
    IF s # <<>> /\ IsSpace(s[Len(s)]) THEN TrimRight(SubSeq(s, 1, Len(s) - 1)) ELSE s

\* strings.TrimSpace
TrimSpace(s) == TrimRight(TrimLeft(s))

\* strings.Split(s, sep) for a one-character separator: always at least one part
RECURSIVE SplitFrom(_, _, _)
SplitFrom(s, sep, cur) ==
    IF s = <<>> THEN <<cur>>
    ELSE IF Head(s) = sep THEN <<cur>> \o SplitFrom(Tail(s), sep, <<>>)
    ELSE SplitFrom(Tail(s), sep, Append(cur, Head(s)))

Split(s, sep) == SplitFrom(s, sep, <<>>)

\* strings.Join(parts, sep) for a one-character separator
RECURSIVE Join(_, _)
Join(parts, sep) ==
    IF parts = <<>> THEN <<>>
    ELSE IF Len(parts) = 1 THEN parts[1]
    ELSE parts[1] \o <<sep>> \o Join(Tail(parts), sep)

\* index of the first character c in s, 0 when absent
RECURSIVE IndexFrom(_, _, _)
IndexFrom(s, c, i) ==
    IF i > Len(s) THEN 0
    ELSE IF s[i] = c THEN i
    ELSE IndexFrom(s, c, i + 1)

IndexOf(s, c) == IndexFrom(s, c, 1)

(***************************************************************************)
(* Errors.  An error value records what failed, the operating-system cause *)
(* it wraps (errors.Is follows %w), and the fmt.Errorf wrappers around it. *)
(***************************************************************************)
NoErr == [kind |-> "nil", cause |-> "none", wraps |-> <<>>, path |-> <<>>, limit |-> 0, actual |-> 0]

NewErr(kind) == [NoErr EXCEPT !.kind = kind]

IsErr(e) == e.kind # "nil"

\* fmt.Errorf("<tag>: %w", err)
Wrap(tag, e) == [e EXCEPT !.wraps = <<tag>> \o @]

\* Mutant of IsNotExist: no error is taken for "not exist".
IsNotExistNever(e) == FALSE

\* errors.Is(err, os.ErrNotExist): only ENOENT is ErrNotExist
IsNotExist(e) == e.cause = "ENOENT"

(***************************************************************************)
(* Frontmatter parser (parser.go, parseFrontmatter).                       *)
(***************************************************************************)
minimumFrontmatterLines == 3

Delim == <<"-", "-", "-">>

\* The key of the `description` field of frontmatterData.  The model writes the
\* key as the single character "d".
DescriptionKey == <<"d">>

\* One line of a flat YAML mapping: "key:" or "key: value".  A double-quoted
\* value must be closed on the same line.
YamlLine(line) ==
    Bind(TrimSpace(line), LAMBDA t :
    Bind(IndexOf(t, ":"), LAMBDA c :
        LET key == SubSeq(t, 1, c - 1)
            rest == SubSeq(t, c + 1, Len(t))
            val == TrimSpace(rest)
            quoted == val # <<>> /\ Head(val) = QUOTE
            closed == Len(val) >= 2 /\ val[Len(val)] = QUOTE
        IN  IF t = <<>> THEN [blank |-> TRUE, ok |-> TRUE, key |-> <<>>, val |-> <<>>]
            ELSE IF c <= 1 THEN [blank |-> FALSE, ok |-> FALSE, key |-> <<>>, val |-> <<>>]
            ELSE IF rest # <<>> /\ Head(rest) # SP
                THEN [blank |-> FALSE, ok |-> FALSE, key |-> <<>>, val |-> <<>>]
            ELSE IF quoted /\ ~closed
                THEN [blank |-> FALSE, ok |-> FALSE, key |-> key, val |-> <<>>]
            ELSE [blank |-> FALSE, ok |-> TRUE, key |-> key,
                  val |-> IF quoted THEN SubSeq(val, 2, Len(val) - 1) ELSE val]))

\* yaml.Unmarshal([]byte(frontmatterText), &fm): an empty document leaves fm
\* zero, a mapping sets Description from the description key and ignores the
\* other keys, a repeated key or anything that is not a mapping is an error.
yamlUnmarshal(text) ==
    Bind(Split(text, NL), LAMBDA ls :
    Bind([i \in DOMAIN ls |-> YamlLine(ls[i])], LAMBDA parsed :
        LET entries == {i \in DOMAIN parsed : ~parsed[i].blank}
            bad == \E i \in entries : ~parsed[i].ok
            dup == \E i, j \in entries : i # j /\ parsed[i].key = parsed[j].key
            descs == {i \in entries : parsed[i].key = DescriptionKey}
        IN  IF bad \/ dup THEN [err |-> NewErr("yaml"), Description |-> <<>>]
            ELSE IF descs = {} THEN [err |-> NoErr, Description |-> <<>>]
            ELSE [err |-> NoErr, Description |-> parsed[CHOOSE i \in descs : TRUE].val]))

\* Index (1-based) of the first line after the opening one whose trimmed text is
\* the delimiter; 0 when there is none (endIndex == -1 in the code).
RECURSIVE FindClosing(_, _)
FindClosing(lines, i) ==
    IF i > Len(lines) THEN 0
    ELSE IF TrimSpace(lines[i]) = Delim THEN i
    ELSE FindClosing(lines, i + 1)

ParseResult(d, c, e) == [description |-> d, content |-> c, err |-> e]

\* Mutant of hasFrontmatterPrefix: the first line is compared after trimming.
hasFrontmatterPrefixTrimmed(content) ==
    /\ Len(Split(content, NL)) >= 2
    /\ TrimSpace(Split(content, NL)[1]) = Delim

\* the content starts with "---\n" or "---\r\n"
hasFrontmatterPrefix(content) ==
    \/ HasPrefix(content, Delim \o <<NL>>)
    \/ HasPrefix(content, Delim \o <<CR, NL>>)

\* Mutant of checkParsed: the empty-content check is missing.
checkParsedNoContentCheck(description, parsedContent) ==
    IF description = <<>> THEN ParseResult(<<>>, <<>>, NewErr("empty description"))
    ELSE ParseResult(description, parsedContent, NoErr)

\* the two emptiness checks that end the header path
checkParsed(description, parsedContent) ==
    IF description = <<>> THEN ParseResult(<<>>, <<>>, NewErr("empty description"))
    ELSE IF parsedContent = <<>> THEN ParseResult(<<>>, <<>>, NewErr("empty content"))
    ELSE ParseResult(description, parsedContent, NoErr)

parseFrontmatter(content) ==
    IF content = <<>> THEN ParseResult(<<>>, <<>>, NoErr)
    ELSE IF ~hasFrontmatterPrefix(content) THEN ParseResult(<<>>, content, NoErr)
    ELSE Bind(Split(content, NL), LAMBDA lines :
        IF Len(lines) < minimumFrontmatterLines THEN ParseResult(<<>>, content, NoErr)
        ELSE Bind(FindClosing(lines, 2), LAMBDA endIndex :
            IF endIndex = 0 THEN ParseResult(<<>>, content, NoErr)
            ELSE Bind(yamlUnmarshal(Join(SubSeq(lines, 2, endIndex - 1), NL)), LAMBDA fm :
                IF IsErr(fm.err) THEN ParseResult(<<>>, <<>>, fm.err)
                ELSE Bind(TrimSpace(fm.Description), LAMBDA description :
                     Bind(TrimSpace(Join(SubSeq(lines, endIndex + 1, Len(lines)), NL)),
                          LAMBDA parsedContent : checkParsed(description, parsedContent))))))

\* Documents used as inputs: a header without description, a header without
\* body, and a header with description "x" and body "y".
EmptyHeaderText == <<"-", "-", "-", NL, "-", "-", "-", NL, "y">>
OnlyHeaderText == <<"-", "-", "-", NL, "d", ":", SP, "x", NL, "-", "-", "-">>
FullText == <<"-", "-", "-", NL, "d", ":", SP, "x", NL, "-", "-", "-", NL, "y">>

(***************************************************************************)
(* Paths (package path/filepath, Unix).                                    *)
(***************************************************************************)
Sep == "/"
Dot == <<".">>
DotDot == <<".", ".">>

IsAbs(path) == path # <<>> /\ path[1] = Sep

\* The path elements kept by Clean: empty and "." elements dropped, ".."
\* removing the element before it (at the root it is dropped, at the start of a
\* relative path it is kept).
RECURSIVE CleanSegs(_, _, _)
CleanSegs(segs, rooted, acc) ==
    IF segs = <<>> THEN acc
    ELSE LET s == Head(segs)
             rest == Tail(segs)
         IN  IF s = <<>> \/ s = Dot THEN CleanSegs(rest, rooted, acc)
             ELSE IF s = DotDot THEN
                 IF acc # <<>> /\ acc[Len(acc)] # DotDot
                     THEN CleanSegs(rest, rooted, SubSeq(acc, 1, Len(acc) - 1))
                 ELSE IF rooted THEN CleanSegs(rest, rooted, acc)
                 ELSE CleanSegs(rest, rooted, Append(acc, s))
             ELSE CleanSegs(rest, rooted, Append(acc, s))

\* filepath.Clean
Clean(path) ==
    Bind(Join(CleanSegs(Split(path, Sep), IsAbs(path), <<>>), Sep), LAMBDA out :
        IF IsAbs(path) THEN <<Sep>> \o out
        ELSE IF out = <<>> THEN Dot
        ELSE out)

\* filepath.Join: the elements from the first non-empty one on, joined by the
\* separator and cleaned; "" when every element is empty
RECURSIVE JoinPath(_)
JoinPath(elems) ==
    IF elems = <<>> THEN <<>>
    ELSE IF Head(elems) = <<>> THEN JoinPath(Tail(elems))
    ELSE Clean(Join(elems, Sep))

\* os.Getwd
Getwd == env.cwd

\* filepath.Abs
Abs(path) == IF IsAbs(path) THEN Clean(path) ELSE JoinPath(<<Getwd, path>>)

\* the elements of a cleaned path ("/" and "." have none)
Elements(cleaned) ==
    IF cleaned = <<Sep>> \/ cleaned = Dot THEN <<>>
    ELSE IF IsAbs(cleaned) THEN Split(Tail(cleaned), Sep)
    ELSE Split(cleaned, Sep)

\* length of the longest common prefix of two sequences
RECURSIVE CommonPrefix(_, _)
CommonPrefix(a, b) ==
    IF a = <<>> \/ b = <<>> \/ Head(a) # Head(b) THEN 0
    ELSE 1 + CommonPrefix(Tail(a), Tail(b))

\* filepath.Rel(basepath, targpath)
Rel(basepath, targpath) ==
    Bind(Clean(basepath), LAMBDA base :
    Bind(Clean(targpath), LAMBDA targ :
    Bind(Elements(base), LAMBDA bs :
    Bind(Elements(targ), LAMBDA ts :
    Bind(CommonPrefix(bs, ts), LAMBDA k :
        LET ups == [i \in 1..(Len(bs) - k) |-> DotDot]
            downs == SubSeq(ts, k + 1, Len(ts))
        IN  IF targ = base THEN [err |-> FALSE, rel |-> Dot]
            ELSE IF IsAbs(base) # IsAbs(targ) THEN [err |-> TRUE, rel |-> <<>>]
            ELSE IF k < Len(bs) /\ bs[k + 1] = DotDot THEN [err |-> TRUE, rel |-> <<>>]
            ELSE [err |-> FALSE, rel |-> Join(ups \o downs, Sep)])))))

\* filepath.Base
Base(path) ==
    Bind(SelectSeq(Split(path, Sep), LAMBDA x : x # <<>>), LAMBDA trimmed :
        IF path = <<>> THEN Dot
        ELSE IF trimmed = <<>> THEN <<Sep>>
        ELSE trimmed[Len(trimmed)])

\* index of the last "." of s, 0 when there is none
RECURSIVE LastDot(_, _)
LastDot(s, i) ==
    IF i = 0 THEN 0
    ELSE IF s[i] = "." THEN i
    ELSE LastDot(s, i - 1)

\* filepath.Ext: the suffix beginning at the final dot of the last element
Ext(path) ==
    Bind(Split(path, Sep), LAMBDA es :
    Bind(es[Len(es)], LAMBDA b :
    Bind(LastDot(b, Len(b)), LAMBDA i :
        IF i = 0 THEN <<>> ELSE SubSeq(b, i, Len(b)))))

(***************************************************************************)
(* The process environment and the file system.                            *)
(*                                                                         *)
(* env.vars maps each environment variable to its value, "" when unset.    *)
(* fs maps the absolute cleaned path of every existing entry to its node;  *)
(* the root directory "/" always exists.                                   *)
(***************************************************************************)
\* os.Getenv
Getenv(name) == env.vars[name]

FileNode(content, readable) == [kind |-> "file", content |-> content, readable |-> readable]
DirNode == [kind |-> "dir", content |-> <<>>, readable |-> TRUE]
\* an entry that is neither a regular file nor a directory: a Unix socket
OtherNode == [kind |-> "other", content |-> <<>>, readable |-> TRUE]
Absent == [kind |-> "absent", content |-> <<>>, readable |-> FALSE]

RootPath == <<Sep>>

Lookup(f, p) ==
    IF p = RootPath THEN DirNode
    ELSE IF p \in DOMAIN f THEN f[p]
    ELSE Absent

\* the directory holding a cleaned absolute path
Parent(p) ==
    Bind(Elements(p), LAMBDA es :
        IF Len(es) <= 1 THEN RootPath
        ELSE <<Sep>> \o Join(SubSeq(es, 1, Len(es) - 1), Sep))

Child(dir, name) == IF dir = RootPath THEN <<Sep>> \o name ELSE dir \o <<Sep>> \o name

\* The kernel's path walk: every element is resolved in the directory reached
\* so far, which must exist and be a directory.
RECURSIVE Walk(_, _, _)
Walk(f, cur, segs) ==
    IF segs = <<>> THEN [errno |-> "none", path |-> cur]
    ELSE IF Lookup(f, cur).kind = "absent" THEN [errno |-> "ENOENT", path |-> cur]
    ELSE IF Lookup(f, cur).kind # "dir" THEN [errno |-> "ENOTDIR", path |-> cur]
    ELSE IF Head(segs) = <<>> \/ Head(segs) = Dot THEN Walk(f, cur, Tail(segs))
    ELSE IF Head(segs) = DotDot THEN Bind(Parent(cur), LAMBDA up : Walk(f, up, Tail(segs)))
    ELSE Bind(Child(cur, Head(segs)), LAMBDA down : Walk(f, down, Tail(segs)))

Resolve(f, path) ==
    Bind(Walk(f, IF IsAbs(path) THEN RootPath ELSE Getwd, Split(path, Sep)), LAMBDA w :
        IF path = <<>> THEN [errno |-> "ENOENT", node |-> Absent]
        ELSE IF w.errno # "none" THEN [errno |-> w.errno, node |-> Absent]
        ELSE IF Lookup(f, w.path).kind = "absent" THEN [errno |-> "ENOENT", node |-> Absent]
        ELSE [errno |-> "none", node |-> Lookup(f, w.path)])

\* fileInfo.Size()
Size(node) == Len(node.content)

\* os.Stat(path): the node, or the errno of the failure
Stat(path) == Resolve(fs, path)

\* os.ReadFile(path)
ReadFile(path) ==
    Bind(Resolve(fs, path), LAMBDA r :
        IF r.errno # "none" THEN [errno |-> r.errno, content |-> <<>>]
        ELSE IF r.node.kind = "dir" THEN [errno |-> "EISDIR", content |-> <<>>]
        ELSE IF r.node.kind = "other" THEN [errno |-> "ENXIO", content |-> <<>>]
        ELSE IF ~r.node.readable THEN [errno |-> "EACCES", content |-> <<>>]
        ELSE [errno |-> "none", content |-> r.node.content])

\* the bytes of the characters used in file names
Ord(c) ==
    CASE c = "." -> 46 [] c = "/" -> 47 [] c = "M" -> 77 [] c = "D" -> 68
      [] c = "a" -> 97 [] c = "b" -> 98 [] c = "c" -> 99 [] c = "d" -> 100
      [] c = "e" -> 101 [] c = "h" -> 104 [] c = "m" -> 109 [] c = "o" -> 111 [] c = "r" -> 114
      [] c = "s" -> 115 [] c = "t" -> 116 [] c = "x" -> 120 [] OTHER -> 0

\* a < b as byte strings
RECURSIVE Less(_, _)
Less(a, b) ==
    IF b = <<>> THEN FALSE
    ELSE IF a = <<>> THEN TRUE
    ELSE IF Head(a) # Head(b) THEN Ord(Head(a)) < Ord(Head(b))
    ELSE Less(Tail(a), Tail(b))

\* the elements of a finite set of strings in increasing order
RECURSIVE Sorted(_)
Sorted(S) ==
    IF S = {} THEN <<>>
    ELSE Bind(CHOOSE x \in S : \A y \in S \ {x} : Less(x, y), LAMBDA m :
              <<m>> \o Sorted(S \ {m}))

\* os.ReadDir(dir): the entries directly under dir, sorted by file name
ReadDir(dir) ==
    Bind(Resolve(fs, dir), LAMBDA r :
    Bind(Abs(dir), LAMBDA d :
    Bind(Sorted({ Base(p) : p \in { q \in DOMAIN fs : q # d /\ Parent(q) = d } }),
         LAMBDA names :
        IF r.errno # "none" THEN [errno |-> r.errno, entries |-> <<>>]
        ELSE IF r.node.kind # "dir" THEN [errno |-> "ENOTDIR", entries |-> <<>>]
        ELSE IF ~r.node.readable THEN [errno |-> "EACCES", entries |-> <<>>]
        ELSE [errno |-> "none",
              entries |-> [i \in DOMAIN names |->
                              [name |-> names[i], kind |-> fs[Child(d, names[i])].kind]]])))

EnvOf(cwd, folder, maxSize, maxCount) ==
    [cwd |-> cwd,
     home |-> <<Sep, "h">>,
     vars |-> [AGENT_STANDARDS_MCP_FOLDER |-> folder,
               AGENT_STANDARDS_MCP_MAX_STANDARD_SIZE |-> maxSize,
               AGENT_STANDARDS_MCP_MAX_STANDARDS |-> maxCount]]

\* every directory from the root down to p
Ancestors(p) ==
    { <<Sep>> \o Join(SubSeq(Elements(p), 1, n), Sep) : n \in 1..Len(Elements(p)) }

\* os.MkdirAll(p) on f
MkdirAll(f, p) ==
    [q \in DOMAIN f \cup Ancestors(p) |-> IF q \in Ancestors(p) THEN DirNode ELSE f[q]]

\* f with node written at p (removed when node is Absent), its parents created
WithNode(f, p, node) ==
    LET g == MkdirAll(f, Parent(p))
    IN  IF p = RootPath THEN g
        ELSE IF node.kind = "absent" THEN [q \in DOMAIN g \ {p} |-> g[q]]
        ELSE [q \in DOMAIN g \cup {p} |-> IF q = p THEN node ELSE g[q]]

EmptyFs == [q \in {} |-> Absent]

(***************************************************************************)
(* Validation policy (parser.go, lines 104-215).                           *)
(***************************************************************************)
oneMB == 1024 * 1024
defaultMaxStandards == 100

DigitValue(c) ==
    CASE c = "0" -> 0 [] c = "1" -> 1 [] c = "2" -> 2 [] c = "3" -> 3 [] c = "4" -> 4
      [] c = "5" -> 5 [] c = "6" -> 6 [] c = "7" -> 7 [] c = "8" -> 8 [] c = "9" -> 9
      [] OTHER -> -1

RECURSIVE DigitsValue(_, _)
DigitsValue(s, acc) ==
    IF s = <<>> THEN acc ELSE DigitsValue(Tail(s), 10 * acc + DigitValue(Head(s)))

\* strconv.ParseInt(s, 10, 64) and strconv.Atoi(s), for values far from overflow
ParseInt(s) ==
    LET signed == s # <<>> /\ Head(s) \in {"+", "-"}
        digits == IF signed THEN Tail(s) ELSE s
        ok == digits # <<>> /\ \A i \in 1..Len(digits) : DigitValue(digits[i]) >= 0
    IN  IF ~ok THEN [err |-> TRUE, val |-> 0]
        ELSE IF signed /\ Head(s) = "-" THEN [err |-> FALSE, val |-> 0 - DigitsValue(digits, 0)]
        ELSE [err |-> FALSE, val |-> DigitsValue(digits, 0)]

getMaxStandardSize ==
    Bind(Getenv("AGENT_STANDARDS_MCP_MAX_STANDARD_SIZE"), LAMBDA sizeStr :
    Bind(ParseInt(sizeStr), LAMBDA size :
        IF sizeStr = <<>> THEN [err |-> NoErr, val |-> oneMB]
        ELSE IF size.err THEN [err |-> NewErr("invalid max standard size"), val |-> 0]
        ELSE [err |-> NoErr, val |-> size.val]))

getMaxStandards ==
    Bind(Getenv("AGENT_STANDARDS_MCP_MAX_STANDARDS"), LAMBDA countStr :
    Bind(ParseInt(countStr), LAMBDA count :
        IF countStr = <<>> THEN [err |-> NoErr, val |-> defaultMaxStandards]
        ELSE IF count.err THEN [err |-> NewErr("invalid max standards"), val |-> 0]
        ELSE [err |-> NoErr, val |-> count.val]))

\* Mutant of isPathTraversal: the test looks at the path as given, not at the
\* path relative to the allowed directory.
isPathTraversalRaw(filePath, allowedDir) ==
    HasPrefix(filePath, DotDot \o <<Sep>>) \/ filePath = DotDot

\* Mutant of isPathTraversal: the absolute paths are compared as texts, the
\* directory being a prefix of the file path or not.
isPathTraversalByPrefix(filePath, allowedDir) == ~HasPrefix(Abs(filePath), Abs(allowedDir))

isPathTraversal(filePath, allowedDir) ==
    Bind(Abs(allowedDir), LAMBDA absAllowed :
    Bind(Abs(filePath), LAMBDA absFile :
    Bind(Rel(absAllowed, absFile), LAMBDA r :
        IF r.err THEN TRUE
        ELSE HasPrefix(r.rel, DotDot \o <<Sep>>) \/ r.rel = DotDot)))

\* The result of a validation: the error and the system calls made, in order.
Validation(e, io) == [err |-> e, io |-> io]

StatCall(path) == [op |-> "stat", path |-> path]
ReadCall(path) == [op |-> "read", path |-> path]
ReadDirCall(path) == [op |-> "readdir", path |-> path]

\* Mutant of validateFile: the file is looked up before the containment check.
validateFileStatFirst(filePath, allowedDir) ==
    Bind(Stat(filePath), LAMBDA st :
        IF st.errno = "ENOENT"
            THEN Validation([NewErr("does not exist") EXCEPT !.cause = "ENOENT", !.path = filePath],
                            <<StatCall(filePath)>>)
        ELSE IF isPathTraversal(filePath, allowedDir)
            THEN Validation([NewErr("path traversal") EXCEPT !.path = filePath],
                            <<StatCall(filePath)>>)
        ELSE Validation(NoErr, <<StatCall(filePath)>>))

\* Mutant of validateFile: a file of exactly the maximum size is rejected too.
validateFileSizeAtLeast(filePath, allowedDir) ==
    IF isPathTraversal(filePath, allowedDir)
        THEN Validation([NewErr("path traversal") EXCEPT !.path = filePath], <<>>)
    ELSE Bind(Stat(filePath), LAMBDA st :
        IF st.errno = "ENOENT"
            THEN Validation([NewErr("does not exist") EXCEPT !.cause = "ENOENT", !.path = filePath],
                            <<StatCall(filePath)>>)
        ELSE IF st.errno # "none"
            THEN Validation([NewErr("stat failed") EXCEPT !.cause = st.errno, !.path = filePath],
                            <<StatCall(filePath)>>)
        ELSE IF st.node.kind = "dir"
            THEN Validation([NewErr("not a file") EXCEPT !.path = filePath],
                            <<StatCall(filePath)>>)
        ELSE IF Size(st.node) >= getMaxStandardSize.val
            THEN Validation([NewErr("size limit") EXCEPT !.limit = getMaxStandardSize.val,
                                                        !.actual = Size(st.node)],
                            <<StatCall(filePath)>>)
        ELSE Validation(NoErr, <<StatCall(filePath)>>))

validateFile(filePath, allowedDir) ==
    IF isPathTraversal(filePath, allowedDir)
        THEN Validation([NewErr("path traversal") EXCEPT !.path = filePath], <<>>)
    ELSE Bind(Stat(filePath), LAMBDA st :
        IF st.errno = "ENOENT"
            THEN Validation([NewErr("does not exist") EXCEPT !.cause = "ENOENT", !.path = filePath],
                            <<StatCall(filePath)>>)
        ELSE IF st.errno # "none"
            THEN Validation([NewErr("stat failed") EXCEPT !.cause = st.errno, !.path = filePath],
                            <<StatCall(filePath)>>)
        ELSE IF st.node.kind = "dir"
            THEN Validation([NewErr("not a file") EXCEPT !.path = filePath],
                            <<StatCall(filePath)>>)
        ELSE Bind(getMaxStandardSize, LAMBDA maxSize :
            IF IsErr(maxSize.err)
                THEN Validation(Wrap("failed to get max standard size", maxSize.err),
                                <<StatCall(filePath)>>)
            ELSE IF Size(st.node) > maxSize.val
                THEN Validation([NewErr("size limit") EXCEPT !.limit = maxSize.val,
                                                            !.actual = Size(st.node)],
                                <<StatCall(filePath)>>)
            ELSE Validation(NoErr, <<StatCall(filePath)>>)))

(***************************************************************************)
(* Standards repository (parser.go, lines 230-388).                        *)
(***************************************************************************)
MdExt == <<".", "m", "d">>

AgentStandardsDir == <<"a", "g", "e", "n", "t", "-", "s", "t", "a", "n", "d", "a", "r", "d", "s">>
StandardsSubdir == <<"s", "t", "a", "n", "d", "a", "r", "d", "s">>

\* os.UserHomeDir: env.home, "" when it cannot be determined
NewFileStandardLoader ==
    LET standardsDir == Getenv("AGENT_STANDARDS_MCP_FOLDER")
        homeDir == IF env.home = <<>> THEN Dot ELSE env.home
    IN  IF standardsDir = <<>>
            THEN [standardsDir |-> JoinPath(<<homeDir, AgentStandardsDir, StandardsSubdir>>)]
        ELSE [standardsDir |-> standardsDir]

\* Mutant of IsStandardEntry: the type of the entry is not looked at.
IsStandardEntryAnyType(entry) ==
    /\ ~HasPrefix(entry.name, Dot)
    /\ Ext(entry.name) = MdExt

\* the entries findStandardFiles keeps: not hidden, regular, extension ".md"
IsStandardEntry(entry) ==
    /\ ~HasPrefix(entry.name, Dot)
    /\ entry.kind = "file"
    /\ Ext(entry.name) = MdExt

FindResult(files, e, io) == [files |-> files, err |-> e, io |-> io]

\* Mutant of findStandardFiles: a directory that does not exist is an error
\* like any other failure of os.ReadDir.
findStandardFilesStrict(l) ==
    Bind(ReadDir(l.standardsDir), LAMBDA rd :
    Bind(SelectSeq(rd.entries, IsStandardEntry), LAMBDA kept :
        IF rd.errno # "none"
            THEN FindResult(<<>>,
                            Wrap("failed to read standards directory",
                                 [NewErr("readdir") EXCEPT !.cause = rd.errno]),
                            <<ReadDirCall(l.standardsDir)>>)
        ELSE FindResult([i \in DOMAIN kept |-> JoinPath(<<l.standardsDir, kept[i].name>>)],
                        NoErr, <<ReadDirCall(l.standardsDir)>>)))

findStandardFiles(l) ==
    Bind(ReadDir(l.standardsDir), LAMBDA rd :
    Bind(SelectSeq(rd.entries, IsStandardEntry), LAMBDA kept :
        IF rd.errno = "ENOENT" THEN FindResult(<<>>, NoErr, <<ReadDirCall(l.standardsDir)>>)
        ELSE IF rd.errno # "none"
            THEN FindResult(<<>>,
                            Wrap("failed to read standards directory",
                                 [NewErr("readdir") EXCEPT !.cause = rd.errno]),
                            <<ReadDirCall(l.standardsDir)>>)
        ELSE FindResult([i \in DOMAIN kept |-> JoinPath(<<l.standardsDir, kept[i].name>>)],
                        NoErr, <<ReadDirCall(l.standardsDir)>>)))

\* the loop of validateStandardFiles: the first failing file ends it
RECURSIVE validateEach(_, _, _)
validateEach(filePaths, allowedDir, io) ==
    IF filePaths = <<>> THEN Validation(NoErr, io)
    ELSE Bind(validateFile(Head(filePaths), allowedDir), LAMBDA v :
            IF IsErr(v.err) THEN Validation(Wrap("validation failed", v.err), io \o v.io)
            ELSE validateEach(Tail(filePaths), allowedDir, io \o v.io))

\* Mutant of validateStandardFiles: a list of exactly the maximum length is
\* rejected too.
validateStandardFilesStrict(filePaths, allowedDir) ==
    Bind(getMaxStandards, LAMBDA maxStandards :
        IF IsErr(maxStandards.err)
            THEN Validation(Wrap("failed to get max standards", maxStandards.err), <<>>)
        ELSE IF Len(filePaths) >= maxStandards.val
            THEN Validation([NewErr("count limit") EXCEPT !.limit = maxStandards.val,
                                                         !.actual = Len(filePaths)], <<>>)
        ELSE validateEach(filePaths, allowedDir, <<>>))

\* Mutant of validateStandardFiles: the files are validated first and the count
\* is checked last.
validateStandardFilesCountLast(filePaths, allowedDir) ==
    Bind(getMaxStandards, LAMBDA maxStandards :
        IF IsErr(maxStandards.err)
            THEN Validation(Wrap("failed to get max standards", maxStandards.err), <<>>)
        ELSE Bind(validateEach(filePaths, allowedDir, <<>>), LAMBDA v :
            IF IsErr(v.err) THEN v
            ELSE IF Len(filePaths) > maxStandards.val
                THEN Validation([NewErr("count limit") EXCEPT !.limit = maxStandards.val,
                                                             !.actual = Len(filePaths)], v.io)
            ELSE v))

validateStandardFiles(filePaths, allowedDir) ==
    Bind(getMaxStandards, LAMBDA maxStandards :
        IF IsErr(maxStandards.err)
            THEN Validation(Wrap("failed to get max standards", maxStandards.err), <<>>)
        ELSE IF Len(filePaths) > maxStandards.val
            THEN Validation([NewErr("count limit") EXCEPT !.limit = maxStandards.val,
                                                         !.actual = Len(filePaths)], <<>>)
        ELSE validateEach(filePaths, allowedDir, <<>>))

\* Mutant of extractStandardName: the extension is kept.
extractStandardNameKeepExt(filePath) == Base(filePath)

extractStandardName(filePath) ==
    Bind(Base(filePath), LAMBDA base :
    Bind(Ext(base), LAMBDA ext :
        IF ext # <<>> THEN SubSeq(base, 1, Len(base) - Len(ext)) ELSE base))

StandardInfo(name, description) == [Name |-> name, Description |-> description]
Standard(name, description, content) ==
    [Name |-> name, Description |-> description, Content |-> content]

\* What a repository method returns: the entries, the error, and the system
\* calls it made, in order.
RepoResult(entries, e, io) == [entries |-> entries, err |-> e, io |-> io]

\* Mutant of listFailure: the entries read so far are returned with the error.
listFailurePartial(standardInfos, e, io) == RepoResult(standardInfos, e, io)

\* `return nil, fmt.Errorf(...)` in the loop of ListStandards
listFailure(standardInfos, e, io) == RepoResult(<<>>, e, io)

\* the read-and-parse loop of ListStandards
RECURSIVE listEach(_, _, _)
listEach(filePaths, standardInfos, io) ==
    IF filePaths = <<>> THEN RepoResult(standardInfos, NoErr, io)
    ELSE
    Bind(Head(filePaths), LAMBDA filePath :
    Bind(Clean(filePath), LAMBDA cleanPath :
    Bind(ReadFile(cleanPath), LAMBDA rf :
    Bind(Append(io, ReadCall(cleanPath)), LAMBDA io2 :
        IF rf.errno # "none"
            THEN listFailure(standardInfos,
                             Wrap("failed to read file",
                                  [NewErr("read") EXCEPT !.cause = rf.errno, !.path = cleanPath]),
                             io2)
        ELSE Bind(parseFrontmatter(rf.content), LAMBDA parsed :
            IF IsErr(parsed.err)
                THEN listFailure(standardInfos,
                                 Wrap("failed to parse frontmatter",
                                      [parsed.err EXCEPT !.path = filePath]),
                                 io2)
            ELSE Bind(Append(standardInfos,
                             StandardInfo(extractStandardName(filePath), parsed.description)),
                      LAMBDA infos : listEach(Tail(filePaths), infos, io2)))))))

\* the loop of the mutant ListStandardsInterleaved
RECURSIVE listInterleaved(_, _, _, _)
listInterleaved(l, filePaths, standardInfos, io) ==
    IF filePaths = <<>> THEN RepoResult(standardInfos, NoErr, io)
    ELSE
    Bind(validateFile(Head(filePaths), l.standardsDir), LAMBDA v :
        IF IsErr(v.err)
            THEN RepoResult(<<>>,
                            Wrap("failed to validate standard files",
                                 Wrap("validation failed", v.err)),
                            io \o v.io)
        ELSE Bind(listEach(<<Head(filePaths)>>, <<>>, <<>>), LAMBDA one :
            IF IsErr(one.err) THEN RepoResult(<<>>, one.err, io \o v.io \o one.io)
            ELSE listInterleaved(l, Tail(filePaths), standardInfos \o one.entries,
                                 io \o v.io \o one.io)))

\* Mutant of ListStandards: every file is validated just before it is read, in
\* place of all files before the first read.
ListStandardsInterleaved(l) ==
    Bind(findStandardFiles(l), LAMBDA found :
        IF IsErr(found.err)
            THEN RepoResult(<<>>, Wrap("failed to find standard files", found.err), found.io)
        ELSE Bind(validateStandardFiles(<<>>, l.standardsDir), LAMBDA v :
            IF IsErr(v.err)
                THEN RepoResult(<<>>, Wrap("failed to validate standard files", v.err),
                                found.io)
            ELSE listInterleaved(l, found.files, <<>>, found.io)))

\* Mutant of ListStandards: the listing made when the loader was constructed,
\* of a directory that was empty then, is returned again.
ListStandardsAtConstruction(l) == RepoResult(<<>>, NoErr, <<>>)

ListStandards(l) ==
    Bind(findStandardFiles(l), LAMBDA found :
        IF IsErr(found.err)
            THEN RepoResult(<<>>, Wrap("failed to find standard files", found.err), found.io)
        ELSE Bind(validateStandardFiles(found.files, l.standardsDir), LAMBDA v :
            IF IsErr(v.err)
                THEN RepoResult(<<>>, Wrap("failed to validate standard files", v.err),
                                found.io \o v.io)
            ELSE listEach(found.files, <<>>, found.io \o v.io)))

\* the loop of GetStandards
RECURSIVE getEach(_, _, _, _)
getEach(l, standardNames, standards, io) ==
    IF standardNames = <<>> THEN RepoResult(standards, NoErr, io)
    ELSE
    Bind(Head(standardNames), LAMBDA standardName :
    Bind(JoinPath(<<l.standardsDir, standardName \o MdExt>>), LAMBDA filePath :
    Bind(validateFile(filePath, l.standardsDir), LAMBDA v :
    Bind(io \o v.io, LAMBDA io2 :
        IF IsErr(v.err) /\ IsNotExist(v.err)
            THEN getEach(l, Tail(standardNames), standards, io2)
        ELSE IF IsErr(v.err)
            THEN RepoResult(<<>>, Wrap("failed to validate standard file", v.err), io2)
        ELSE
        Bind(Clean(filePath), LAMBDA cleanPath :
        Bind(ReadFile(cleanPath), LAMBDA rf :
        Bind(Append(io2, ReadCall(cleanPath)), LAMBDA io3 :
            IF rf.errno # "none"
                THEN RepoResult(<<>>, Wrap("failed to read standard file",
                                          [NewErr("read") EXCEPT !.cause = rf.errno,
                                                                 !.path = cleanPath]), io3)
            ELSE Bind(parseFrontmatter(rf.content), LAMBDA parsed :
                IF IsErr(parsed.err)
                    THEN RepoResult(<<>>, Wrap("failed to parse frontmatter for standard",
                                              [parsed.err EXCEPT !.path = filePath]), io3)
                ELSE Bind(Append(standards,
                                 Standard(standardName, parsed.description, parsed.content)),
                          LAMBDA found : getEach(l, Tail(standardNames), found, io3))))))))))

\* Mutant of GetStandards: a name that fails in any way is skipped like a
\* missing one.
RECURSIVE getEachLenient(_, _, _, _)
getEachLenient(l, standardNames, standards, io) ==
    IF standardNames = <<>> THEN RepoResult(standards, NoErr, io)
    ELSE Bind(getEach(l, <<Head(standardNames)>>, <<>>, <<>>), LAMBDA one :
            getEachLenient(l, Tail(standardNames), standards \o one.entries, io \o one.io))

GetStandardsLenient(l, standardNames) == getEachLenient(l, standardNames, <<>>, <<>>)

GetStandards(l, standardNames) == getEach(l, standardNames, <<>>, <<>>)

(***************************************************************************)
(* Call records.  Every specification keeps in `call` the operation that   *)
(* was last invoked, its input and, once it has returned, its output.      *)
(***************************************************************************)
NoCall == [op |-> "none", returned |-> FALSE, in |-> <<>>, out |-> <<>>]

Invoke(op, in) == [op |-> op, returned |-> FALSE, in |-> in, out |-> <<>>]

Return(c, out) == [c EXCEPT !.returned = TRUE, !.out = out]

Returned(op) == call.op = op /\ call.returned

(***************************************************************************)
(* SpecParse: parseFrontmatter applied to every text of at most MaxLines   *)
(* lines drawn from ParseLines.                                            *)
(***************************************************************************)
MaxLines == 4

ParseLines ==
    { <<>>,
      Delim,
      Delim \o <<CR>>,
      Delim \o <<SP>>,
      <<"d", ":", SP, "x">>,
      <<"d", ":">>,
      <<"d", ":", SP, QUOTE, "x">>,
      <<"y">> }

ParseInputs ==
    { Join(ls, NL) : ls \in UNION { [1..n -> ParseLines] : n \in 0..MaxLines } }

InitParse ==
    /\ fs = EmptyFs
    /\ env = EnvOf(RootPath, <<>>, <<>>, <<>>)
    /\ loader = NewFileStandardLoader
    /\ \E c \in ParseInputs : call = Invoke("parseFrontmatter", c)

ParseFrontmatter ==
    /\ call.op = "parseFrontmatter"
    /\ ~call.returned
    /\ call' = Return(call, parseFrontmatter(call.in))
    /\ UNCHANGED <<fs, env, loader>>

NextParse == ParseFrontmatter

SpecParse == InitParse /\ [][NextParse]_vars

(***************************************************************************)
(* SpecPath: validateFile applied to every candidate path of at most       *)
(* MaxSegs elements against every allowed directory of PathRoots, with the *)
(* target missing, a small file, an oversized file or a directory.         *)
(***************************************************************************)
MaxSegs == 3

PathSegs == { DotDot, <<"r">>, <<"e">> }

\* relative and absolute paths of at most MaxSegs elements
PathInputs ==
    LET rel == { Join(es, Sep) : es \in UNION { [1..n -> PathSegs] : n \in 1..MaxSegs } }
    IN  rel \cup { <<Sep>> \o q : q \in rel }

PathRoots == { <<Sep, "r">>, <<"r">>, <<Sep, "r", Sep, "e">>, Dot }

PathCwds == { RootPath, <<Sep, "r">>, <<Sep, "e">> }

\* the default size limit of the configuration (config.go) and of the README
defaultMaxStandardSize == 10240

\* a text one byte longer than the documented default limit
BigText == [i \in 1..(defaultMaxStandardSize + 1) |-> "y"]

TargetNodes ==
    { Absent, DirNode, OtherNode, FileNode(<<"y">>, TRUE), FileNode(<<"y", "y">>, TRUE),
      FileNode(BigText, TRUE) }

InitPath ==
    \E filePath \in PathInputs, allowedDir \in PathRoots, cwd \in PathCwds,
       node \in TargetNodes, maxSize \in { <<>>, <<"1">> } :
        /\ env = EnvOf(cwd, <<>>, maxSize, <<>>)
        /\ fs = MkdirAll(WithNode(EmptyFs, Abs(filePath), node), cwd)
        /\ loader = NewFileStandardLoader
        /\ call = Invoke("validateFile", [filePath |-> filePath, allowedDir |-> allowedDir])

ValidateFile ==
    /\ call.op = "validateFile"
    /\ ~call.returned
    /\ call' = Return(call, validateFile(call.in.filePath, call.in.allowedDir))
    /\ UNCHANGED <<fs, env, loader>>

NextPath == ValidateFile

SpecPath == InitPath /\ [][NextPath]_vars

\* The candidate lies outside the allowed directory: made absolute, the
\* directory's elements are not a prefix of the candidate's elements.
Outside(filePath, allowedDir) ==
    LET d == Elements(Abs(allowedDir))
        f == Elements(Abs(filePath))
    IN  ~(Len(d) <= Len(f) /\ SubSeq(f, 1, Len(d)) = d)

\* C1: a candidate path outside the allowed directory is rejected with the
\* path-traversal error, and no stat was made, whether the target is missing,
\* a directory, a file or an oversized file.
C1_TraversalBeforeExistence ==
    Returned("validateFile") /\ Outside(call.in.filePath, call.in.allowedDir)
        => /\ call.out.err.kind = "path traversal"
           /\ call.out.io = <<>>

\* C1 witness: "../../e" was validated against /r from /r while nothing exists
\* at /e, and the result is the traversal error.
C1_Witness ==
    /\ Returned("validateFile")
    /\ call.in.filePath = <<".", ".", Sep, ".", ".", Sep, "e">>
    /\ call.in.allowedDir = <<Sep, "r">>
    /\ env.cwd = <<Sep, "r">>
    /\ Stat(<<Sep, "e">>).errno = "ENOENT"
    /\ call.out.err.kind = "path traversal"

\* what the candidate path of the call holds
Target == Stat(call.in.filePath)

InsideCall == Returned("validateFile") /\ ~Outside(call.in.filePath, call.in.allowedDir)

\* C13: for a candidate inside the allowed directory, a missing target gives
\* the "does not exist" error, an existing target that is not a regular file
\* gives the "is not a file" error, and validateFile succeeds only for a
\* regular file.
C13_OnlyRegularFilesPass ==
    InsideCall =>
        /\ Target.errno = "ENOENT" => call.out.err.kind = "does not exist"
        /\ Target.errno = "none" /\ Target.node.kind # "file" => call.out.err.kind = "not a file"
        /\ ~IsErr(call.out.err) => Target.errno = "none" /\ Target.node.kind = "file"

\* C14: for an existing regular file inside the allowed directory, validateFile
\* returns the size-limit error exactly when the size is greater than the
\* configured maximum, with the maximum and the size in the error, and no error
\* otherwise.
C14_SizeLimitIsStrict ==
    InsideCall /\ Target.errno = "none" /\ Target.node.kind = "file" =>
        IF Size(Target.node) > getMaxStandardSize.val
            THEN /\ call.out.err.kind = "size limit"
                 /\ call.out.err.limit = getMaxStandardSize.val
                 /\ call.out.err.actual = Size(Target.node)
            ELSE ~IsErr(call.out.err)

\* C14 witness: with a maximum of 1 byte a file of 2 bytes was rejected with
\* limit 1 and size 2 in the error.
C14_Witness ==
    /\ InsideCall
    /\ Getenv("AGENT_STANDARDS_MCP_MAX_STANDARD_SIZE") = <<"1">>
    /\ Target.node = FileNode(<<"y", "y">>, TRUE)
    /\ call.out.err.kind = "size limit"
    /\ call.out.err.limit = 1
    /\ call.out.err.actual = 2

\* C15: when AGENT_STANDARDS_MCP_MAX_STANDARD_SIZE is not set, a regular file
\* inside the allowed directory that is larger than defaultMaxStandardSize
\* (10240 bytes) is rejected with the size-limit error.
C15_DefaultLimitIsDocumented ==
    ( /\ InsideCall
      /\ Getenv("AGENT_STANDARDS_MCP_MAX_STANDARD_SIZE") = <<>>
      /\ Target.errno = "none"
      /\ Target.node.kind = "file"
      /\ Size(Target.node) > defaultMaxStandardSize )
        => call.out.err.kind = "size limit"

(***************************************************************************)
(* SpecFiles: validateStandardFiles on lists of candidate paths, some of   *)
(* them missing, oversized, directories or outside the allowed directory,  *)
(* under a count limit of 1, of 2 or the built-in one.                     *)
(***************************************************************************)
MaxPaths == 3

FilesRoot == <<Sep, "r">>

FileA == <<Sep, "r", Sep, "a", ".", "m", "d">>
FileB == <<Sep, "r", Sep, "b", ".", "m", "d">>
FileO == <<Sep, "o", ".", "m", "d">>

\* what a candidate below the allowed directory holds; with a size limit of 1
\* byte the file of 2 bytes is oversized
FileNodes == { Absent, DirNode, FileNode(<<"y">>, TRUE), FileNode(<<"y", "y">>, TRUE) }

RECURSIVE SeqsUpTo(_, _)
SeqsUpTo(S, n) ==
    IF n = 0 THEN { <<>> }
    ELSE SeqsUpTo(S, n - 1) \cup { <<x>> \o t : x \in S, t \in { u \in SeqsUpTo(S, n - 1) : Len(u) = n - 1 } }

PathLists == SeqsUpTo({ FileA, FileB, FileO }, MaxPaths)

InitFiles ==
    \E filePaths \in PathLists, a \in FileNodes, b \in FileNodes,
       maxCount \in { <<>>, <<"1">>, <<"2">> } :
        /\ env = EnvOf(RootPath, <<>>, <<"1">>, maxCount)
        /\ fs = WithNode(WithNode(WithNode(MkdirAll(EmptyFs, FilesRoot), FileA, a), FileB, b),
                         FileO, FileNode(<<"y">>, TRUE))
        /\ loader = NewFileStandardLoader
        /\ call = Invoke("validateStandardFiles", [filePaths |-> filePaths, allowedDir |-> FilesRoot])

ValidateStandardFiles ==
    /\ call.op = "validateStandardFiles"
    /\ ~call.returned
    /\ call' = Return(call, validateStandardFiles(call.in.filePaths, call.in.allowedDir))
    /\ UNCHANGED <<fs, env, loader>>

NextFiles == ValidateStandardFiles

SpecFiles == InitFiles /\ [][NextFiles]_vars

\* the count limit of the environment of SpecFiles
CountLimit ==
    IF Getenv("AGENT_STANDARDS_MCP_MAX_STANDARDS") = <<"1">> THEN 1
    ELSE IF Getenv("AGENT_STANDARDS_MCP_MAX_STANDARDS") = <<"2">> THEN 2
    ELSE defaultMaxStandards

\* what is wrong with a candidate of SpecFiles, "nil" when nothing is
FileProblem(p) ==
    IF Outside(p, FilesRoot) THEN "path traversal"
    ELSE IF p \notin DOMAIN fs THEN "does not exist"
    ELSE IF fs[p].kind = "dir" THEN "not a file"
    ELSE IF Len(fs[p].content) > 1 THEN "size limit"
    ELSE "nil"

\* the stat calls of the candidates 1..k that passed the traversal check
RECURSIVE StatsOf(_, _)
StatsOf(paths, k) ==
    IF k = 0 THEN <<>>
    ELSE StatsOf(paths, k - 1)
             \o (IF FileProblem(paths[k]) = "path traversal" THEN <<>> ELSE <<StatCall(paths[k])>>)

\* C16: when the candidates are more than the count limit the result is the
\* count-limit error with the limit and the count, whatever the files hold,
\* and no file was examined; otherwise the result is the validation error of
\* the first failing candidate in list order, with no later candidate
\* examined, or success after every candidate was examined.
C16_CountBeforeFiles ==
    Returned("validateStandardFiles") =>
        LET paths == call.in.filePaths
            bad == { i \in DOMAIN paths : FileProblem(paths[i]) # "nil" }
        IN  IF Len(paths) > CountLimit
                THEN /\ call.out.err.kind = "count limit"
                     /\ call.out.err.limit = CountLimit
                     /\ call.out.err.actual = Len(paths)
                     /\ call.out.io = <<>>
            ELSE IF bad # {}
                THEN LET k == CHOOSE i \in bad : \A j \in bad : i <= j
                     IN  /\ call.out.err.kind = FileProblem(paths[k])
                         /\ call.out.err.wraps = <<"validation failed">>
                         /\ call.out.io = StatsOf(paths, k)
            ELSE /\ ~IsErr(call.out.err)
                 /\ call.out.io = StatsOf(paths, Len(paths))

\* C16 witness: two candidates under a count limit of 1, the first outside the
\* allowed directory and the second missing, gave the count-limit error and no
\* system call.
C16_Witness ==
    /\ Returned("validateStandardFiles")
    /\ call.in.filePaths = <<FileO, FileB>>
    /\ FileB \notin DOMAIN fs
    /\ CountLimit = 1
    /\ call.out.err.kind = "count limit"
    /\ call.out.io = <<>>

(***************************************************************************)
(* SpecNames: GetStandards of one requested name made of "..", ".", empty  *)
(* and plain segments, over a fixed tree with files inside and outside the *)
(* standards directory /r, given as an absolute or as a relative folder.   *)
(***************************************************************************)
MaxNameSegs == 3

NameSegments == { <<".", ".">>, <<".">>, <<"a">>, <<"r", "a">>, <<>> }

\* the requested names: up to MaxNameSegs segments joined by separators; an
\* empty first segment gives a leading separator
SegmentNames ==
    { Join(segs, Sep) : segs \in { t \in SeqsUpTo(NameSegments, MaxNameSegs) : t # <<>> } }

\* the files of the tree: inside the standards directory, beside it and above it
TreeFiles ==
    { <<Sep, "r", Sep, "a", ".", "m", "d">>,
      <<Sep, "r", Sep, "r", "a", ".", "m", "d">>,
      <<Sep, "r", Sep, "a", Sep, "a", ".", "m", "d">>,
      <<Sep, "r", Sep, ".", "m", "d">>,
      <<Sep, "r", "a", ".", "m", "d">>,
      <<Sep, "r", "a", Sep, "a", ".", "m", "d">>,
      <<Sep, "a", ".", "m", "d">>,
      <<Sep, ".", "m", "d">> }

RECURSIVE WriteAll(_, _)
WriteAll(f, paths) ==
    IF paths = {} THEN f
    ELSE Bind(CHOOSE p \in paths : TRUE, LAMBDA p :
              WriteAll(WithNode(f, p, FileNode(FullText, TRUE)), paths \ {p}))

InitNames ==
    \E name \in SegmentNames, folder \in { <<Sep, "r">>, <<"r">> } :
        /\ env = EnvOf(RootPath, folder, <<>>, <<>>)
        /\ fs = WriteAll(EmptyFs, TreeFiles)
        /\ loader = NewFileStandardLoader
        /\ call = Invoke("GetStandards", <<name>>)

GetByName ==
    /\ call.op = "GetStandards"
    /\ ~call.returned
    /\ call' = Return(call, GetStandards(loader, call.in))
    /\ UNCHANGED <<fs, env, loader>>

NextNames == GetByName

SpecNames == InitNames /\ [][NextNames]_vars

\* where the segments lead from the directory stack: "." and the empty segment
\* stay, ".." goes up (the root is its own parent), a name goes down
RECURSIVE Walked(_, _)
Walked(stack, segs) ==
    IF segs = <<>> THEN stack
    ELSE IF Head(segs) \in { <<>>, <<".">> } THEN Walked(stack, Tail(segs))
    ELSE IF Head(segs) = <<".", ".">>
        THEN Walked(IF stack = <<>> THEN <<>> ELSE SubSeq(stack, 1, Len(stack) - 1), Tail(segs))
    ELSE Walked(Append(stack, Head(segs)), Tail(segs))

\* the path leads below the directory /r (the working directory is /)
LeadsBelowRoot(path) ==
    LET w == Walked(<<>>, Split(path, Sep))
    IN  Len(w) >= 2 /\ w[1] = <<"r">>

\* root/<name>.md resolves to a place below the standards directory
NameInside(name) == LeadsBelowRoot(<<Sep, "r", Sep>> \o name \o MdExt)

\* C28: every stat and read of GetStandards is of a path below the standards
\* directory, and a requested name whose path root/<name>.md resolves to a
\* place outside it fails with the path-traversal error before any stat or
\* read.
C28_ReadsStayInsideRoot ==
    Returned("GetStandards") /\ Len(call.in) = 1 =>
        /\ \A i \in DOMAIN call.out.io : LeadsBelowRoot(call.out.io[i].path)
        /\ ~NameInside(call.in[1]) =>
               /\ call.out.err.kind = "path traversal"
               /\ call.out.io = <<>>
               /\ call.out.entries = <<>>

\* C28 witness: the name "../ra" names the existing file /ra.md beside the
\* standards directory /r; the call failed with the path-traversal error and
\* made no system call.
C28_Witness ==
    /\ Returned("GetStandards")
    /\ call.in = << <<".", ".", Sep, "r", "a">> >>
    /\ <<Sep, "r", "a", ".", "m", "d">> \in DOMAIN fs
    /\ call.out.err.kind = "path traversal"
    /\ call.out.io = <<>>

(***************************************************************************)
(* Invocations in steps.  An invocation of ListStandards or GetStandards   *)
(* is a goroutine; one step is one system call with the computation that   *)
(* follows it up to the next system call.  pc is the place of the          *)
(* invocation in its method, i the index of its loop, cancelled whether    *)
(* the Done channel of its context is closed.                              *)
(***************************************************************************)
Invocation(op, names) ==
    [op |-> op, names |-> names, files |-> <<>>,
     pc |-> IF op = "ListStandards" THEN "find"
            ELSE IF names = <<>> THEN "done" ELSE "validate",
     i |-> 1, entries |-> <<>>, err |-> NoErr, io |-> <<>>, cancelled |-> FALSE]

\* the method returns
Finish(p, entries, e, io) ==
    [p EXCEPT !.pc = "done", !.entries = entries, !.err = e, !.io = io]

\* the loop goes on to the next element, or the method returns its entries
NextOrFinish(p, n, entries, io) ==
    IF p.i = n THEN Finish(p, entries, NoErr, io)
    ELSE [p EXCEPT !.pc = "validate", !.i = @ + 1, !.entries = entries, !.io = io]

\* GetStandards, lines 304-313: the path of the name is validated
getValidate(l, p) ==
    Bind(JoinPath(<<l.standardsDir, p.names[p.i] \o MdExt>>), LAMBDA filePath :
    Bind(validateFile(filePath, l.standardsDir), LAMBDA v :
        IF IsErr(v.err) /\ IsNotExist(v.err)
            THEN NextOrFinish(p, Len(p.names), p.entries, p.io \o v.io)
        ELSE IF IsErr(v.err)
            THEN Finish(p, <<>>, Wrap("failed to validate standard file", v.err), p.io \o v.io)
        ELSE [p EXCEPT !.pc = "read", !.io = p.io \o v.io]))

\* GetStandards, lines 316-334: the file is read and parsed
getRead(l, p) ==
    Bind(JoinPath(<<l.standardsDir, p.names[p.i] \o MdExt>>), LAMBDA filePath :
    Bind(Clean(filePath), LAMBDA cleanPath :
    Bind(ReadFile(cleanPath), LAMBDA rf :
    Bind(Append(p.io, ReadCall(cleanPath)), LAMBDA io2 :
        IF rf.errno # "none"
            THEN Finish(p, <<>>, Wrap("failed to read standard file",
                                      [NewErr("read") EXCEPT !.cause = rf.errno,
                                                             !.path = cleanPath]), io2)
        ELSE Bind(parseFrontmatter(rf.content), LAMBDA parsed :
            IF IsErr(parsed.err)
                THEN Finish(p, <<>>, Wrap("failed to parse frontmatter for standard",
                                          [parsed.err EXCEPT !.path = filePath]), io2)
            ELSE NextOrFinish(p, Len(p.names),
                              Append(p.entries, Standard(p.names[p.i], parsed.description,
                                                         parsed.content)),
                              io2))))))

\* ListStandards, lines 254-257, and the count check of validateStandardFiles
listFind(l, p) ==
    Bind(findStandardFiles(l), LAMBDA found :
    Bind(getMaxStandards, LAMBDA maxStandards :
        IF IsErr(found.err)
            THEN Finish(p, <<>>, Wrap("failed to find standard files", found.err), found.io)
        ELSE IF IsErr(maxStandards.err)
            THEN Finish(p, <<>>,
                        Wrap("failed to validate standard files",
                             Wrap("failed to get max standards", maxStandards.err)), found.io)
        ELSE IF Len(found.files) > maxStandards.val
            THEN Finish(p, <<>>,
                        Wrap("failed to validate standard files",
                             [NewErr("count limit") EXCEPT !.limit = maxStandards.val,
                                                          !.actual = Len(found.files)]),
                        found.io)
        ELSE IF found.files = <<>> THEN Finish(p, <<>>, NoErr, found.io)
        ELSE [p EXCEPT !.pc = "validate", !.files = found.files, !.io = found.io]))

\* the loop of validateStandardFiles: one file is validated
listValidate(l, p) ==
    Bind(validateFile(p.files[p.i], l.standardsDir), LAMBDA v :
        IF IsErr(v.err)
            THEN Finish(p, <<>>,
                        Wrap("failed to validate standard files",
                             Wrap("validation failed", v.err)), p.io \o v.io)
        ELSE IF p.i = Len(p.files) THEN [p EXCEPT !.pc = "read", !.i = 1, !.io = p.io \o v.io]
        ELSE [p EXCEPT !.i = @ + 1, !.io = p.io \o v.io])

\* the loop of ListStandards, lines 267-292: one file is read and parsed
listRead(l, p) ==
    Bind(listEach(<<p.files[p.i]>>, <<>>, <<>>), LAMBDA one :
        IF IsErr(one.err) THEN Finish(p, <<>>, one.err, p.io \o one.io)
        ELSE IF p.i = Len(p.files)
            THEN Finish(p, p.entries \o one.entries, NoErr, p.io \o one.io)
        ELSE [p EXCEPT !.i = @ + 1, !.entries = p.entries \o one.entries,
                       !.io = p.io \o one.io])

\* one step of an invocation; the context is not looked at
advance(l, p) ==
    IF p.op = "ListStandards"
        THEN IF p.pc = "find" THEN listFind(l, p)
             ELSE IF p.pc = "validate" THEN listValidate(l, p)
             ELSE listRead(l, p)
    ELSE IF p.pc = "validate" THEN getValidate(l, p)
    ELSE getRead(l, p)

\* Mutant of Advance: the invocations of one method collect their entries in
\* one slice that they share.
AdvanceSharedEntries(c, q) ==
    [r \in DOMAIN c |->
        IF r = q THEN advance(loader, c[q])
        ELSE IF c[r].pc = "done" \/ c[r].op # c[q].op THEN c[r]
        ELSE [c[r] EXCEPT !.entries = advance(loader, c[q]).entries]]

\* the invocations after a step of invocation q: only q has changed
Advance(c, q) == [c EXCEPT ![q] = advance(loader, c[q])]

(***************************************************************************)
(* SpecConc: two invocations run concurrently, step by step, over a        *)
(* directory that does not change; the context of an invocation may be     *)
(* cancelled at any moment.                                                *)
(***************************************************************************)
MaxConcNames == 2

Goroutines == { 1, 2 }

\* what a.md and b.md hold in the directory of the invocations
ConcNodesA == { Absent, FileNode(FullText, TRUE), FileNode(EmptyHeaderText, TRUE) }
ConcNodesB == { Absent, FileNode(FullText, TRUE) }

Invocations ==
    { Invocation("ListStandards", <<>>) }
    \cup { Invocation("GetStandards", names) :
               names \in SeqsUpTo({ <<"a">>, <<"b">> }, MaxConcNames) }

InitConc ==
    /\ env = EnvOf(RootPath, FilesRoot, <<>>, <<>>)
    /\ loader = NewFileStandardLoader
    /\ \E a \in ConcNodesA, b \in ConcNodesB :
           fs = WithNode(WithNode(MkdirAll(EmptyFs, FilesRoot), FileA, a), FileB, b)
    /\ call \in [Goroutines -> Invocations]

\* the scheduler runs one step of an invocation that has not returned
Run(q) ==
    /\ call[q].pc # "done"
    /\ call' = Advance(call, q)
    /\ UNCHANGED <<fs, env, loader>>

\* the caller cancels the context of an invocation that has not returned
Cancel(q) ==
    /\ call[q].pc # "done"
    /\ ~call[q].cancelled
    /\ call' = [call EXCEPT ![q].cancelled = TRUE]
    /\ UNCHANGED <<fs, env, loader>>

NextConc ==
    \/ \E q \in DOMAIN call : Run(q)
    \/ \E q \in DOMAIN call : Cancel(q)

SpecConc == InitConc /\ [][NextConc]_vars

\* what the invocation returns when it runs alone over the directory
Alone(p) ==
    IF p.op = "ListStandards" THEN ListStandards(loader) ELSE GetStandards(loader, p.names)

Outcome(p) == RepoResult(p.entries, p.err, p.io)

\* C21: whatever the interleaving of the steps of the two invocations, an
\* invocation that has returned holds the entries, the error and the system
\* calls of the same invocation run alone over the directory.
C21_ConcurrentAsAlone ==
    \A q \in DOMAIN call : call[q].pc = "done" => Outcome(call[q]) = Alone(call[q])

\* C21 witness: while a listing of the valid a.md and b.md is between its
\* validation and its reads, a get of "a" and "b" has returned both entries.
C21_Witness ==
    /\ call[1].op = "ListStandards"
    /\ call[1].pc = "read"
    /\ Len(call[1].files) = 2
    /\ call[2].op = "GetStandards"
    /\ call[2].pc = "done"
    /\ call[2].names = << <<"a">>, <<"b">> >>
    /\ Len(call[2].entries) = 2
    /\ Outcome(call[2]) = Alone(call[2])

\* C22: an invocation whose context is cancelled makes no further system
\* call.
C22_NoIOAfterCancel ==
    [][\A q \in DOMAIN call : call[q].cancelled => call'[q].io = call[q].io]_vars

(***************************************************************************)
(* SpecRace: one invocation of GetStandards runs step by step while files  *)
(* of the directory are removed between its steps.                         *)
(***************************************************************************)
InitRace ==
    /\ env = EnvOf(RootPath, FilesRoot, <<>>, <<>>)
    /\ loader = NewFileStandardLoader
    /\ \E a \in ConcNodesA, b \in ConcNodesB :
           fs = WithNode(WithNode(MkdirAll(EmptyFs, FilesRoot), FileA, a), FileB, b)
    /\ \E names \in SeqsUpTo({ <<"a">>, <<"b">> }, MaxConcNames + 1) :
           call = [q \in { 1 } |-> Invocation("GetStandards", names)]

\* os.Remove of a file of the directory by another process
RemoveFile ==
    /\ \E path \in { FileA, FileB } :
           /\ path \in DOMAIN fs
           /\ fs' = WithNode(fs, path, Absent)
    /\ UNCHANGED <<env, loader, call>>

NextRace ==
    \/ \E q \in DOMAIN call : Run(q)
    \/ RemoveFile

SpecRace == InitRace /\ [][NextRace]_vars

\* C26: GetStandards never returns an error for a file that does not exist, at
\* whichever step the file is found missing.
C26_MissingNeverFails ==
    \A q \in DOMAIN call :
        call[q].op = "GetStandards" /\ call[q].pc = "done" => ~IsNotExist(call[q].err)

(***************************************************************************)
(* Spec: the repository over a directory that changes between calls.       *)
(* The standards directory is /r.  Between two calls entries are written   *)
(* and removed; a call runs against the directory as it is (ListStandards  *)
(* and GetStandards take no step while the directory changes), and its     *)
(* result is held in `call` until the caller has taken it.                 *)
(***************************************************************************)
MaxFiles == 3
MaxNames == 2

StandardsRoot == <<Sep, "r">>

PlainText == <<"y">>

AnyNodes ==
    { FileNode(FullText, TRUE), FileNode(PlainText, TRUE), FileNode(<<>>, TRUE),
      FileNode(EmptyHeaderText, TRUE), FileNode(PlainText, FALSE), DirNode, OtherNode }

Entry(name, node) == [name |-> name, node |-> node]

\* what may be written under the standards directory
EntryOptions ==
    { Entry(<<"a", ".", "m", "d">>, n) : n \in AnyNodes }
    \cup { Entry(<<"b", ".", "m", "d">>, n) :
               n \in {FileNode(FullText, TRUE), FileNode(EmptyHeaderText, TRUE), DirNode} }
    \cup { Entry(<<".", "m", "d">>, n) : n \in {FileNode(FullText, TRUE), DirNode} }
    \cup { Entry(<<"c", ".", "t", "x", "t">>, FileNode(FullText, TRUE)) }
    \cup { Entry(<<"d">>, n) : n \in {FileNode(PlainText, TRUE), DirNode} }
    \cup { Entry(<<"d", Sep, "a", ".", "m", "d">>, FileNode(FullText, TRUE)) }

\* p is dir or lies below it
Under(p, dir) == p = dir \/ HasPrefix(p, dir \o <<Sep>>)

\* the entries below the standards directory
Below(f, dir) == { q \in DOMAIN f : Under(q, dir) /\ q # dir }

\* the size limit and the count limit of the environment: both unset, a size
\* limit of 9 bytes, a count limit of one file
Limits ==
    { [size |-> <<>>, count |-> <<>>],
      [size |-> <<"9">>, count |-> <<>>],
      [size |-> <<>>, count |-> <<"1">>] }

RequestNames == { <<>>, <<"a">>, <<"b">>, <<"d", Sep, "a">>, <<".", ".", Sep, "o">> }

NameLists == UNION { [1..n -> RequestNames] : n \in 0..MaxNames }

Init ==
    /\ \E limits \in Limits :
           env = EnvOf(RootPath, StandardsRoot, limits.size, limits.count)
    /\ loader = NewFileStandardLoader
    /\ fs = MkdirAll(EmptyFs, StandardsRoot)
    /\ call = NoCall

\* os.Mkdir of the standards directory
MkdirRoot ==
    /\ call.op = "none"
    /\ Lookup(fs, StandardsRoot).kind = "absent"
    /\ fs' = MkdirAll(fs, StandardsRoot)
    /\ UNCHANGED <<env, loader, call>>

\* an entry is created or replaced under the standards directory
WriteEntry(options) ==
    /\ call.op = "none"
    /\ \E o \in options :
        LET p == Child(StandardsRoot, o.name)
        IN  /\ Lookup(fs, Parent(p)).kind = "dir"
            /\ Below(fs, p) = {}
            /\ Lookup(fs, p) # o.node
            /\ Cardinality(Below(fs, StandardsRoot) \cup {p}) <= MaxFiles
            /\ fs' = WithNode(fs, p, o.node)
    /\ UNCHANGED <<env, loader, call>>

\* os.RemoveAll of the standards directory or of an entry below it
RemoveAll ==
    /\ call.op = "none"
    /\ \E p \in DOMAIN fs :
        /\ Under(p, StandardsRoot)
        /\ fs' = [q \in { x \in DOMAIN fs : ~Under(x, p) } |-> fs[q]]
    /\ UNCHANGED <<env, loader, call>>

CallListStandards ==
    /\ call.op = "none"
    /\ call' = Return(Invoke("ListStandards", <<>>), ListStandards(loader))
    /\ UNCHANGED <<fs, env, loader>>

CallGetStandards ==
    /\ call.op = "none"
    /\ \E names \in NameLists :
           call' = Return(Invoke("GetStandards", names), GetStandards(loader, names))
    /\ UNCHANGED <<fs, env, loader>>

\* the caller takes the result
TakeResult ==
    /\ call.op # "none"
    /\ call.returned
    /\ call' = NoCall
    /\ UNCHANGED <<fs, env, loader>>

Next ==
    \/ MkdirRoot
    \/ WriteEntry(EntryOptions)
    \/ RemoveAll
    \/ CallListStandards
    \/ CallGetStandards
    \/ TakeResult

Spec == Init /\ [][Next]_vars

(***************************************************************************)
(* Properties of parseFrontmatter.                                         *)
(***************************************************************************)
\* The text opens with a delimiter line: its first line is "---" (or "---\r")
\* and a line break follows it.
OpensWithDelimiterLine(content) ==
    /\ Len(Split(content, NL)) >= 2
    /\ Split(content, NL)[1] \in {Delim, Delim \o <<CR>>}

\* Some line after the first is a delimiter line.
HasClosingDelimiterLine(content) ==
    \E i \in 2..Len(Split(content, NL)) : TrimSpace(Split(content, NL)[i]) = Delim

HeaderComplete(content) ==
    OpensWithDelimiterLine(content) /\ HasClosingDelimiterLine(content)

\* What the four example texts of the claim give.
ParseExamples ==
    /\ call.in = EmptyHeaderText => IsErr(call.out.err)
    /\ call.in = OnlyHeaderText => IsErr(call.out.err)
    /\ call.in = FullText => call.out = ParseResult(<<"x">>, <<"y">>, NoErr)
    /\ call.in = <<>> => call.out = ParseResult(<<>>, <<>>, NoErr)

\* A successful result of the header path: description and body both trimmed
\* and non-empty.
BothNonEmpty(out) ==
    /\ out.description # <<>>
    /\ out.content # <<>>
    /\ out.description = TrimSpace(out.description)
    /\ out.content = TrimSpace(out.content)

\* C6 (as stated): whenever the text has an opening delimiter line and a later
\* closing delimiter line, parseFrontmatter returns no error only if the
\* trimmed description and the trimmed body are both non-empty.
C6_AsStated ==
    Returned("parseFrontmatter") /\ HeaderComplete(call.in) /\ ~IsErr(call.out.err)
        => BothNonEmpty(call.out)

\* C6 (amended): the same, for texts of at least minimumFrontmatterLines lines;
\* a text with both delimiter lines but fewer lines is returned whole, with an
\* empty description and no error.  The four example texts give what the claim
\* says.
C6_HeaderNeedsDescriptionAndBody ==
    Returned("parseFrontmatter") =>
        /\ ( /\ HeaderComplete(call.in)
             /\ Len(Split(call.in, NL)) >= minimumFrontmatterLines
             /\ ~IsErr(call.out.err) ) => BothNonEmpty(call.out)
        /\ ( /\ HeaderComplete(call.in)
             /\ Len(Split(call.in, NL)) < minimumFrontmatterLines )
               => call.out = ParseResult(<<>>, call.in, NoErr)
        /\ ParseExamples

\* C6 witness: a text with a complete header whose body is empty was parsed and
\* rejected.
C6_Witness ==
    /\ Returned("parseFrontmatter")
    /\ call.in = OnlyHeaderText
    /\ call.out.err.kind = "empty content"

\* C7: a text without a complete header (no opening delimiter line, or an
\* opening one but no later closing delimiter line) is returned unchanged as the
\* body, with an empty description and no error.
C7_NoHeaderReturnsInput ==
    Returned("parseFrontmatter") /\ ~HeaderComplete(call.in)
        => call.out = ParseResult(<<>>, call.in, NoErr)

\* C7 witness: a text that opens with a delimiter line, has three lines and no
\* closing delimiter line, and untrimmed trailing space, was returned whole.
C7_Witness ==
    /\ Returned("parseFrontmatter")
    /\ call.in = <<"-", "-", "-", NL, "d", ":", SP, "x", NL, "y", NL>>
    /\ call.out.content = call.in

(***************************************************************************)
(* Properties of the repository.  They describe the directory as it is     *)
(* while the result of the call is held: the directory does not change     *)
(* before the caller has taken the result.                                 *)
(***************************************************************************)
\* <standards directory>/<name>.md, as a request names it
NamedPath(name) == loader.standardsDir \o <<Sep>> \o name \o MdExt

\* the named path does not leave the standards directory
StaysInside(name) == Under(Clean(NamedPath(name)), Clean(loader.standardsDir))

\* something exists at the named path
FileExists(name) == Stat(NamedPath(name)).errno = "none"

\* the lookup of the named path reports that there is no such entry
ReportedMissing(name) == Stat(NamedPath(name)).errno = "ENOENT"

\* a node that passes validation, can be read and is accepted by the parser
ValidNode(node) ==
    /\ node.kind = "file"
    /\ node.readable
    /\ Size(node) <= getMaxStandardSize.val
    /\ ~IsErr(parseFrontmatter(node.content).err)

\* the file of a requested name exists and is valid
ExistsAndValid(name) == FileExists(name) /\ ValidNode(Stat(NamedPath(name)).node)

EntryNames(entries) == [i \in DOMAIN entries |-> entries[i].Name]

\* C2 (as stated): when every requested name either has an existing valid file
\* or has no file, GetStandards returns no error and one entry per position
\* whose file exists and is valid, in request order.
C2_AsStated ==
    ( /\ Returned("GetStandards")
      /\ \A i \in DOMAIN call.in : ExistsAndValid(call.in[i]) \/ ~FileExists(call.in[i]) )
        => /\ ~IsErr(call.out.err)
           /\ EntryNames(call.out.entries) = SelectSeq(call.in, ExistsAndValid)

\* C2 (amended): the same for names whose path stays inside the standards
\* directory and whose lookup, when it fails, reports "no such entry"; a name
\* whose path leaves the directory, or whose lookup fails in another way (a
\* path element that is not a directory), makes the call return an error and no
\* entries.
C2_ExistingInOrderMissingSkipped ==
    Returned("GetStandards") =>
        /\ ( \A i \in DOMAIN call.in :
                /\ StaysInside(call.in[i])
                /\ ExistsAndValid(call.in[i]) \/ ReportedMissing(call.in[i]) )
              => /\ ~IsErr(call.out.err)
                 /\ EntryNames(call.out.entries) = SelectSeq(call.in, ExistsAndValid)
        /\ ( \E i \in DOMAIN call.in :
                \/ ~StaysInside(call.in[i])
                \/ ~FileExists(call.in[i]) /\ ~ReportedMissing(call.in[i]) )
              => /\ IsErr(call.out.err)
                 /\ call.out.entries = <<>>
        /\ call.in = <<>> => call.out.entries = <<>> /\ ~IsErr(call.out.err)

\* C2 witness: "a" was requested twice, a.md is a valid file and there is no
\* b.md, and the result has two entries named "a".
C2_Witness ==
    /\ Returned("GetStandards")
    /\ call.in = << <<"a">>, <<"a">> >>
    /\ ExistsAndValid(<<"a">>)
    /\ ReportedMissing(<<"b">>)
    /\ ~IsErr(call.out.err)
    /\ EntryNames(call.out.entries) = << <<"a">>, <<"a">> >>

\* C3: every Standard that GetStandards returns without error has non-empty
\* Content.
C3_ContentNeverEmpty ==
    Returned("GetStandards") /\ ~IsErr(call.out.err)
        => \A i \in DOMAIN call.out.entries : call.out.entries[i].Content # <<>>

\* the names of the entries directly under the standards directory
DirectNames ==
    { Base(q) : q \in { p \in DOMAIN fs : p # RootPath /\ Parent(p) = Clean(loader.standardsDir) } }

NodeOf(name) == fs[Child(Clean(loader.standardsDir), name)]

EndsWith(s, suffix) ==
    /\ Len(s) >= Len(suffix)
    /\ SubSeq(s, Len(s) - Len(suffix) + 1, Len(s)) = suffix

\* the candidates: regular files directly under the standards directory whose
\* name does not start with "." and ends with ".md"
CandidateNames ==
    { n \in DirectNames : NodeOf(n).kind = "file" /\ Head(n) # "." /\ EndsWith(n, MdExt) }

CountExceeded == Cardinality(CandidateNames) > getMaxStandards.val

\* the names of the candidates, in the order of the listing, without ".md"
ExpectedNames ==
    LET sorted == Sorted(CandidateNames)
    IN  [i \in DOMAIN sorted |-> SubSeq(sorted[i], 1, Len(sorted[i]) - Len(MdExt))]

\* C8: when the candidates exceed the count limit, or some candidate is over
\* the size limit, cannot be read or is rejected by the parser, ListStandards
\* returns an error and no entries.
C8_ListFailFast ==
    ( /\ Returned("ListStandards")
      /\ CountExceeded \/ \E n \in CandidateNames : ~ValidNode(NodeOf(n)) )
        => /\ IsErr(call.out.err)
           /\ call.out.entries = <<>>

\* C8 witness: a.md is valid and was read, b.md has a header without
\* description, and the call returned the parse error.
C8_Witness ==
    /\ Returned("ListStandards")
    /\ CandidateNames = { <<"a", ".", "m", "d">>, <<"b", ".", "m", "d">> }
    /\ ValidNode(NodeOf(<<"a", ".", "m", "d">>))
    /\ NodeOf(<<"b", ".", "m", "d">>) = FileNode(EmptyHeaderText, TRUE)
    /\ call.out.err.kind = "empty description"
    /\ \E i \in DOMAIN call.out.io : call.out.io[i] = ReadCall(<<Sep, "r", Sep, "a", ".", "m", "d">>)

\* the regular files directly under the standards directory
RegularFiles == { n \in DirectNames : NodeOf(n).kind = "file" }

\* C9 (as stated): when the directory holds N regular files, N at most the
\* count limit, each within the size limit, ListStandards returns without error
\* N entries with non-empty names.
C9_AsStated ==
    ( /\ Returned("ListStandards")
      /\ Cardinality(RegularFiles) <= getMaxStandards.val
      /\ \A n \in RegularFiles : Size(NodeOf(n)) <= getMaxStandardSize.val )
        => /\ ~IsErr(call.out.err)
           /\ Len(call.out.entries) = Cardinality(RegularFiles)
           /\ \A i \in DOMAIN call.out.entries : call.out.entries[i].Name # <<>>

\* C9 (amended): when the directory holds N candidates, N at most the count
\* limit, each within the size limit, readable and accepted by the parser,
\* ListStandards returns without error N entries with non-empty names.
C9_ValidCandidatesAllListed ==
    ( /\ Returned("ListStandards")
      /\ ~CountExceeded
      /\ \A n \in CandidateNames : ValidNode(NodeOf(n)) )
        => /\ ~IsErr(call.out.err)
           /\ Len(call.out.entries) = Cardinality(CandidateNames)
           /\ \A i \in DOMAIN call.out.entries : call.out.entries[i].Name # <<>>

\* C9 witness: two valid candidates, no more than the count limit allows, were
\* listed as two entries.
C9_Witness ==
    /\ Returned("ListStandards")
    /\ Cardinality(CandidateNames) = 2
    /\ ~CountExceeded
    /\ \A n \in CandidateNames : ValidNode(NodeOf(n))
    /\ Len(call.out.entries) = 2
    /\ ~IsErr(call.out.err)

\* C10: ListStandards validates and reads the candidates and nothing else, and
\* a listing without error has one entry per candidate, in the order of the
\* file names.
C10_CandidatesAreDirectRegularMd ==
    Returned("ListStandards") =>
        /\ \A i \in DOMAIN call.out.io :
               call.out.io[i].op \in {"stat", "read"}
                   => \E n \in CandidateNames :
                          call.out.io[i].path = Child(Clean(loader.standardsDir), n)
        /\ ~IsErr(call.out.err) => EntryNames(call.out.entries) = ExpectedNames

\* C10 witness: the directory holds a valid b.md and a subdirectory d with a
\* valid a.md of its own; the listing is the one entry "b".
C10_Witness ==
    /\ Returned("ListStandards")
    /\ DirectNames = { <<"b", ".", "m", "d">>, <<"d">> }
    /\ Lookup(fs, <<Sep, "r", Sep, "d", Sep, "a", ".", "m", "d">>) = FileNode(FullText, TRUE)
    /\ ~IsErr(call.out.err)
    /\ EntryNames(call.out.entries) = << <<"b">> >>

\* the files read by a call, in the order of the reads
ReadPaths(io) ==
    LET reads == SelectSeq(io, LAMBDA c : c.op = "read")
    IN  [i \in DOMAIN reads |-> reads[i].path]

\* the base name of a path (the text after its last separator) without the
\* text from its last dot on
BaseNameStripped(path) ==
    LET parts == Split(path, Sep)
        base == parts[Len(parts)]
        dot == LastDot(base, Len(base))
    IN  IF dot = 0 THEN base ELSE SubSeq(base, 1, dot - 1)

\* C11: every entry that ListStandards or GetStandards returns without error
\* has a non-empty Name, the base name of the file it was read from without its
\* extension.
C11_NameIsStrippedBaseName ==
    (Returned("ListStandards") \/ Returned("GetStandards")) /\ ~IsErr(call.out.err)
        => /\ Len(ReadPaths(call.out.io)) = Len(call.out.entries)
           /\ \A i \in DOMAIN call.out.entries :
                  /\ call.out.entries[i].Name # <<>>
                  /\ call.out.entries[i].Name = BaseNameStripped(ReadPaths(call.out.io)[i])

\* What a requested name comes to: "nil" when it gives an entry, "skip" when
\* its file is reported missing, and otherwise the failure.
NameOutcome(name) ==
    IF ~StaysInside(name) THEN "path traversal"
    ELSE LET st == Stat(NamedPath(name))
         IN  IF st.errno = "ENOENT" THEN "skip"
             ELSE IF st.errno # "none" THEN "stat failed"
             ELSE IF st.node.kind = "dir" THEN "not a file"
             ELSE IF Size(st.node) > getMaxStandardSize.val THEN "size limit"
             ELSE IF st.node.kind # "file" \/ ~st.node.readable THEN "read"
             ELSE parseFrontmatter(st.node.content).err.kind

\* the system calls a requested name needs: none when it is rejected as
\* traversal, the stat when validation ends it, the stat and the read otherwise
Accesses(name) ==
    IF NameOutcome(name) = "path traversal" THEN 0
    ELSE IF NameOutcome(name) \in {"skip", "stat failed", "not a file", "size limit"} THEN 1
    ELSE 2

RECURSIVE SumAccesses(_, _)
SumAccesses(names, k) ==
    IF k = 0 THEN 0 ELSE SumAccesses(names, k - 1) + Accesses(names[k])

Failing(name) == NameOutcome(name) \notin {"nil", "skip"}

\* C12: when some requested name fails other than by a missing file,
\* GetStandards returns the failure of the first such name and no entries, and
\* its system calls are those of the names up to that one: no later name is
\* looked up or read.
C12_GetFailFast ==
    ( /\ Returned("GetStandards")
      /\ \E i \in DOMAIN call.in : Failing(call.in[i]) )
        => LET k == CHOOSE i \in DOMAIN call.in :
                       Failing(call.in[i]) /\ \A j \in 1..(i - 1) : ~Failing(call.in[j])
           IN  /\ call.out.err.kind = NameOutcome(call.in[k])
               /\ call.out.entries = <<>>
               /\ Len(call.out.io) = SumAccesses(call.in, k)
               /\ \A c \in DOMAIN call.out.io :
                      \E j \in 1..k : call.out.io[c].path = Clean(NamedPath(call.in[j]))

\* C12 witness: "b" and then "a" were requested, b.md has a header without
\* description and a.md is valid; the call returned the parse error, no entry,
\* and made two system calls, both on b.md.
C12_Witness ==
    /\ Returned("GetStandards")
    /\ call.in = << <<"b">>, <<"a">> >>
    /\ ExistsAndValid(<<"a">>)
    /\ call.out.err.kind = "empty description"
    /\ call.out.entries = <<>>
    /\ call.out.io = << StatCall(<<Sep, "r", Sep, "b", ".", "m", "d">>),
                        ReadCall(<<Sep, "r", Sep, "b", ".", "m", "d">>) >>

\* the entry that the file of a requested name gives now
StandardNow(name) ==
    LET parsed == parseFrontmatter(Stat(NamedPath(name)).node.content)
    IN  Standard(name, parsed.description, parsed.content)

\* the entry that a candidate of the listing gives now
InfoNow(n) ==
    StandardInfo(SubSeq(n, 1, Len(n) - Len(MdExt)), parseFrontmatter(NodeOf(n).content).description)

GivesEntry(name) == NameOutcome(name) = "nil"

\* C20: a returned call holds what the directory as it is now determines,
\* whatever calls and changes of files came before: a failure exactly when a
\* file that the call needs fails now, and otherwise the entries parsed from
\* the present contents of the files; and the loader is as it was constructed.
C20_ResultFromCurrentDirectory ==
    /\ loader = NewFileStandardLoader
    /\ Returned("GetStandards") =>
           IF \E i \in DOMAIN call.in : Failing(call.in[i])
               THEN IsErr(call.out.err) /\ call.out.entries = <<>>
               ELSE /\ ~IsErr(call.out.err)
                    /\ call.out.entries =
                           LET kept == SelectSeq(call.in, GivesEntry)
                           IN  [i \in DOMAIN kept |-> StandardNow(kept[i])]
    /\ Returned("ListStandards") =>
           IF CountExceeded \/ \E n \in CandidateNames : ~ValidNode(NodeOf(n))
               THEN IsErr(call.out.err) /\ call.out.entries = <<>>
               ELSE /\ ~IsErr(call.out.err)
                    /\ call.out.entries =
                           LET sorted == Sorted(CandidateNames)
                           IN  [i \in DOMAIN sorted |-> InfoNow(sorted[i])]

\* C20 witness: a.md, rewritten without a header, and a valid b.md were
\* listed: the entry of a has the empty description of the present file.
C20_Witness ==
    /\ Returned("ListStandards")
    /\ FileExists(<<"a">>)
    /\ NodeOf(<<"a", ".", "m", "d">>) = FileNode(PlainText, TRUE)
    /\ ExistsAndValid(<<"b">>)
    /\ call.out.entries = << StandardInfo(<<"a">>, <<>>), StandardInfo(<<"b">>, <<"x">>) >>

\* the folder of the configuration: AGENT_STANDARDS_MCP_FOLDER, and
\* ~/agent-standards when it is not set
ConfiguredFolder ==
    IF Getenv("AGENT_STANDARDS_MCP_FOLDER") = <<>>
        THEN JoinPath(<<env.home, AgentStandardsDir>>)
        ELSE Getenv("AGENT_STANDARDS_MCP_FOLDER")

\* C25: the directory that ListStandards reads is the subdirectory "standards"
\* of the configured folder, whether AGENT_STANDARDS_MCP_FOLDER is set or not.
C25_ScansStandardsSubdir ==
    Returned("ListStandards") =>
        call.out.io[1] = ReadDirCall(JoinPath(<<ConfiguredFolder, StandardsSubdir>>))

\* C27: while the directory is as ListStandards found it, every entry of a
\* listing without error can be fetched by its name: GetStandards of that one
\* name returns no error and one Standard with the same Name and Description.
C27_ListedCanBeFetched ==
    Returned("ListStandards") /\ ~IsErr(call.out.err) =>
        \A i \in DOMAIN call.out.entries :
            Bind(GetStandards(loader, <<call.out.entries[i].Name>>), LAMBDA g :
                /\ ~IsErr(g.err)
                /\ Len(g.entries) = 1
                /\ g.entries[1].Name = call.out.entries[i].Name
                /\ g.entries[1].Description = call.out.entries[i].Description)

\* C27 witness: the listing of the valid files a.md and b.md has the entries a
\* and b, and GetStandards of "b" returns the one Standard b with the
\* description of the listing.
C27_Witness ==
    /\ Returned("ListStandards")
    /\ ~IsErr(call.out.err)
    /\ call.out.entries = << StandardInfo(<<"a">>, <<"x">>), StandardInfo(<<"b">>, <<"x">>) >>
    /\ GetStandards(loader, << <<"b">> >>).entries = << Standard(<<"b">>, <<"x">>, <<"y">>) >>

\* a candidate that validation rejects: it is over the size limit
OverSize(n) == Size(NodeOf(n)) > getMaxStandardSize.val

\* the positions of the calls of one kind among the system calls
CallsOf(io, op) == { i \in DOMAIN io : io[i].op = op }

\* C29: ListStandards reads no file before the count check and the validation
\* of every candidate have succeeded: every stat precedes every read, a read is
\* made only after one stat per candidate, and when the count is exceeded or a
\* candidate is over the size limit no file is read and the error is the
\* validation error, even if a file enumerated earlier has a malformed header.
C29_ValidationBeforeAnyRead ==
    Returned("ListStandards") =>
        /\ \A i \in CallsOf(call.out.io, "read"), j \in CallsOf(call.out.io, "stat") : j < i
        /\ CallsOf(call.out.io, "read") # {} =>
               Cardinality(CallsOf(call.out.io, "stat")) = Cardinality(CandidateNames)
        /\ CountExceeded \/ (\E n \in CandidateNames : OverSize(n)) =>
               /\ CallsOf(call.out.io, "read") = {}
               /\ call.out.err.kind \in {"count limit", "size limit"}
               /\ Head(call.out.err.wraps) = "failed to validate standard files"

\* C29 witness: a.md, enumerated first, has a header without description and
\* b.md is over the size limit; the call returned the size-limit error and read
\* no file.
C29_Witness ==
    /\ Returned("ListStandards")
    /\ CandidateNames = { <<"a", ".", "m", "d">>, <<"b", ".", "m", "d">> }
    /\ NodeOf(<<"a", ".", "m", "d">>) = FileNode(EmptyHeaderText, TRUE)
    /\ OverSize(<<"b", ".", "m", "d">>)
    /\ ~OverSize(<<"a", ".", "m", "d">>)
    /\ call.out.err.kind = "size limit"
    /\ CallsOf(call.out.io, "read") = {}

(***************************************************************************)
(* Protocol adapter (server.go): the handlers of the tools list_standards  *)
(* and get_standards.                                                      *)
(*                                                                         *)
(* A value of type `any` is a record with its dynamic type, its text (for  *)
(* a scalar) and its elements (for a slice).  The input of a tool call is  *)
(* a function from the keys that are present to their values.  A handler   *)
(* returns its result, its error and the calls it made to the audit logger *)
(* and to the repository, in order.                                        *)
(***************************************************************************)
StringValue(s) == [type |-> "string", str |-> s, elems |-> <<>>]
NumberValue(s) == [type |-> "float64", str |-> s, elems |-> <<>>]
NilValue == [type |-> "nil", str |-> <<>>, elems |-> <<>>]
StringSlice(names) ==
    [type |-> "[]string", str |-> <<>>, elems |-> [i \in DOMAIN names |-> StringValue(names[i])]]
AnySlice(elems) == [type |-> "[]any", str |-> <<>>, elems |-> elems]

\* an input map with no key, and m with key k set to v
NoInput == [k \in {} |-> NilValue]
WithKey(m, k, v) == [x \in DOMAIN m \cup {k} |-> IF x = k THEN v ELSE m[x]]

ClientID == "mcp-client"

\* the `result any` of LogClientResponse: nil or a text
NilText == [isNil |-> TRUE, text |-> <<>>]
Text(t) == [isNil |-> FALSE, text |-> t]

\* the calls a handler makes
Event(ev, client, tool, input, names, result, e) ==
    [ev |-> ev, client |-> client, tool |-> tool, input |-> input, names |-> names,
     result |-> result, err |-> e]

LogClientRequest(client, tool, input) ==
    Event("LogClientRequest", client, tool, input, <<>>, NilText, NoErr)

LogClientResponse(client, result, e) ==
    Event("LogClientResponse", client, "", NoInput, <<>>, result, e)

\* s.standardLoader.ListStandards(ctx) and s.standardLoader.GetStandards(ctx, names)
LoaderCall(method, names) ==
    Event(method, "", "", NoInput, names, NilText, NoErr)

\* err.Error(): the wrapping messages and the message of the error, joined by ": "
ErrorText(e) ==
    LET parts == e.wraps \o <<e.kind>>
    IN  Join([i \in DOMAIN parts |-> <<parts[i]>>], ": ")

\* prompt.LoadRelevantStandardsPrompt() and prompt.FollowStandardsPrompt(): the
\* embedded texts, one token each
LoadRelevantStandardsPrompt == <<"load-relevant-standards-prompt">>
FollowStandardsPrompt == <<"follow-standards-prompt">>

NoStandardsFound == <<"No standards found.">>

formatStandardInfo(info) == info.Name \o <<":", SP>> \o info.Description

\* the grave accent (U+0060) of a code fence, written by its name
GRAVE == "GRAVE"
Fence == <<GRAVE, GRAVE, GRAVE>>

formatStandard(standard) ==
    <<"#", "#", SP>> \o standard.Name \o <<":", SP>> \o standard.Description
        \o <<NL>> \o Fence \o <<"m", "d", NL>> \o standard.Content \o <<NL>> \o Fence

\* the loop of formatStandardInfos
RECURSIVE writeInfos(_, _, _)
writeInfos(infos, i, builder) ==
    IF i > Len(infos) THEN builder
    ELSE writeInfos(infos, i + 1,
                    builder \o (IF i > 1 THEN <<NL>> ELSE <<>>) \o formatStandardInfo(infos[i]))

\* Mutant of formatStandardInfos: the lines are written last entry first.
formatStandardInfosReversed(infos) ==
    IF Len(infos) = 0 THEN NoStandardsFound
    ELSE writeInfos([i \in DOMAIN infos |-> infos[Len(infos) + 1 - i]], 1,
                    LoadRelevantStandardsPrompt \o <<NL>>)

formatStandardInfos(infos) ==
    IF Len(infos) = 0 THEN NoStandardsFound
    ELSE writeInfos(infos, 1, LoadRelevantStandardsPrompt \o <<NL>>)

\* the loop of formatStandards
RECURSIVE writeStandards(_, _, _)
writeStandards(standards, i, builder) ==
    IF i > Len(standards) THEN builder
    ELSE writeStandards(standards, i + 1,
                        builder
                          \o (IF i > 1 THEN <<NL, NL, "-", "-", "-", "-", "-", "-", NL, NL>> ELSE <<>>)
                          \o formatStandard(standards[i]))

\* the loop of the mutant of formatStandards
RECURSIVE writeStandardsTrailing(_, _, _)
writeStandardsTrailing(standards, i, builder) ==
    IF i > Len(standards) THEN builder
    ELSE writeStandardsTrailing(standards, i + 1,
                                builder \o formatStandard(standards[i])
                                  \o <<NL, NL, "-", "-", "-", "-", "-", "-", NL, NL>>)

\* Mutant of formatStandards: the separator is written after every block, the
\* last one included.
formatStandardsTrailing(standards) ==
    IF Len(standards) = 0 THEN NoStandardsFound
    ELSE writeStandardsTrailing(standards, 1, FollowStandardsPrompt \o <<NL, NL>>)

formatStandards(standards) ==
    IF Len(standards) = 0 THEN NoStandardsFound
    ELSE writeStandards(standards, 1, FollowStandardsPrompt \o <<NL, NL>>)

\* What a handler returns: the tool result, the error, and the calls it made.
HandlerResult(isError, text, e, events) ==
    [result |-> [IsError |-> isError, Text |-> text, StructuredContent |-> text],
     err |-> e, events |-> events]

\* Mutant of toolError: the response is not recorded.
toolErrorUnlogged(e, events) == HandlerResult(TRUE, ErrorText(e), e, events)

\* Mutant of toolError: the caller is given a fixed text in place of the
\* message of the error.
toolErrorGeneric(e, events) ==
    HandlerResult(TRUE, <<"internal error">>, e,
                  Append(events, LogClientResponse(ClientID, NilText, e)))

\* the error path of a handler: the response is recorded, then the error result
\* is returned
toolError(e, events) ==
    HandlerResult(TRUE, ErrorText(e), e, Append(events, LogClientResponse(ClientID, NilText, e)))

\* the success path of a handler
toolResult(formattedResult, events) ==
    HandlerResult(FALSE, formattedResult, NoErr,
                  Append(events, LogClientResponse(ClientID, Text(formattedResult), NoErr)))

\* Mutant of handleListStandards: when the input has a limit, only the first
\* entry of the repository is formatted.
handleListStandardsLimited(l, input) ==
    Bind(<<LogClientRequest(ClientID, "list_standards", input), LoaderCall("ListStandards", <<>>)>>,
         LAMBDA events :
    Bind(ListStandards(l), LAMBDA domainResult :
        IF IsErr(domainResult.err) THEN toolError(domainResult.err, events)
        ELSE Bind(formatStandardInfos(IF "limit" \in DOMAIN input /\ Len(domainResult.entries) > 1
                                          THEN <<domainResult.entries[1]>>
                                          ELSE domainResult.entries),
                  LAMBDA formattedResult : toolResult(formattedResult, events))))

handleListStandards(l, input) ==
    Bind(<<LogClientRequest(ClientID, "list_standards", input), LoaderCall("ListStandards", <<>>)>>,
         LAMBDA events :
    Bind(ListStandards(l), LAMBDA domainResult :
        IF IsErr(domainResult.err) THEN toolError(domainResult.err, events)
        ELSE Bind(formatStandardInfos(domainResult.entries), LAMBDA formattedResult :
                  toolResult(formattedResult, events))))

\* index of the first element that is not a string, 0 when every one is
RECURSIVE FirstNonString(_, _)
FirstNonString(elems, i) ==
    IF i > Len(elems) THEN 0
    ELSE IF elems[i].type # "string" THEN i
    ELSE FirstNonString(elems, i + 1)

Conversion(names, e) == [names |-> names, err |-> e]

\* Mutant of convertStandardNames: an element that is not a string is taken as
\* the empty name.
convertStandardNamesLenient(standardNamesRaw) ==
    IF standardNamesRaw.type \in {"[]string", "[]any"}
        THEN Conversion([i \in DOMAIN standardNamesRaw.elems |->
                            IF standardNamesRaw.elems[i].type = "string"
                                THEN standardNamesRaw.elems[i].str ELSE <<>>], NoErr)
    ELSE Conversion(<<>>, NewErr("standard_names must be an array of strings"))

\* The type switch of handleGetStandards.  For a []any the names are copied up
\* to the first element that is not a string, where the loop breaks.
convertStandardNames(standardNamesRaw) ==
    IF standardNamesRaw.type = "[]string"
        THEN Conversion([i \in DOMAIN standardNamesRaw.elems |-> standardNamesRaw.elems[i].str],
                        NoErr)
    ELSE IF standardNamesRaw.type = "[]any"
        THEN Bind(FirstNonString(standardNamesRaw.elems, 1), LAMBDA bad :
                IF bad = 0
                    THEN Conversion([i \in DOMAIN standardNamesRaw.elems |->
                                        standardNamesRaw.elems[i].str], NoErr)
                ELSE Conversion([i \in DOMAIN standardNamesRaw.elems |->
                                    IF i < bad THEN standardNamesRaw.elems[i].str ELSE <<>>],
                                NewErr("standard_names must be an array of strings")))
    ELSE Conversion(<<>>, NewErr("standard_names must be an array of strings"))

handleGetStandards(l, input) ==
    Bind(<<LogClientRequest(ClientID, "get_standards", input)>>, LAMBDA request :
        IF "standard_names" \notin DOMAIN input
            THEN toolError(NewErr("standard_names parameter is required"), request)
        ELSE Bind(convertStandardNames(input["standard_names"]), LAMBDA converted :
            IF IsErr(converted.err) THEN toolError(converted.err, request)
            ELSE
            Bind(Append(request, LoaderCall("GetStandards", converted.names)), LAMBDA events :
            Bind(GetStandards(l, converted.names), LAMBDA domainResult :
                IF IsErr(domainResult.err) THEN toolError(domainResult.err, events)
                ELSE Bind(formatStandards(domainResult.entries), LAMBDA formattedResult :
                          toolResult(formattedResult, events))))))

(***************************************************************************)
(* SpecServer: the handlers over the repository.  Entries are written      *)
(* under the standards directory between calls; a handler runs against the *)
(* directory as it is and its result is held until the caller takes it.    *)
(***************************************************************************)
\* a directory whose entries cannot be read (no read permission)
UnreadableDir == [DirNode EXCEPT !.readable = FALSE]

\* what the standards path holds when it is not a readable directory
RootNodes == { FileNode(PlainText, TRUE), UnreadableDir }

\* the standards path, absent, is created as a regular file or as a directory
\* without read permission
WriteRoot ==
    /\ call.op = "none"
    /\ Lookup(fs, StandardsRoot).kind = "absent"
    /\ \E node \in RootNodes : fs' = WithNode(fs, StandardsRoot, node)
    /\ UNCHANGED <<env, loader, call>>

ServerEntryOptions ==
    { Entry(<<"a", ".", "m", "d">>, n) :
          n \in {FileNode(FullText, TRUE), FileNode(<<>>, TRUE), FileNode(EmptyHeaderText, TRUE)} }
    \cup { Entry(<<"b", ".", "m", "d">>, FileNode(FullText, TRUE)) }

\* the elements of a standard_names array decoded from JSON
ElemValues == { StringValue(<<"a">>), StringValue(<<"b">>), NumberValue(<<"1">>), NilValue }

\* the values of standard_names: slices of at most MaxNames elements, and
\* values that are no slice
NameValues ==
    { StringSlice(ns) : ns \in UNION { [1..n -> { <<"a">>, <<"b">> }] : n \in 0..MaxNames } }
    \cup { AnySlice(es) : es \in UNION { [1..n -> ElemValues] : n \in 0..MaxNames } }
    \cup { StringValue(<<"a">>), NumberValue(<<"1">>), NilValue }

LimitInput == WithKey(NoInput, "limit", NumberValue(<<"1">>))

ListInputs == { NoInput, LimitInput }

GetInputs ==
    { NoInput, LimitInput }
    \cup { WithKey(NoInput, "standard_names", v) : v \in NameValues }

InitServer ==
    /\ env = EnvOf(RootPath, StandardsRoot, <<>>, <<>>)
    /\ loader = NewFileStandardLoader
    /\ fs = MkdirAll(EmptyFs, StandardsRoot)
    /\ call = NoCall

HandleListStandards ==
    /\ call.op = "none"
    /\ \E input \in ListInputs :
           call' = Return(Invoke("handleListStandards", input),
                          handleListStandards(loader, input))
    /\ UNCHANGED <<fs, env, loader>>

HandleGetStandards ==
    /\ call.op = "none"
    /\ \E input \in GetInputs :
           call' = Return(Invoke("handleGetStandards", input),
                          handleGetStandards(loader, input))
    /\ UNCHANGED <<fs, env, loader>>

NextServer ==
    \/ MkdirRoot
    \/ WriteRoot
    \/ RemoveAll
    \/ WriteEntry(ServerEntryOptions)
    \/ HandleListStandards
    \/ HandleGetStandards
    \/ TakeResult

SpecServer == InitServer /\ [][NextServer]_vars

(***************************************************************************)
(* SpecNew: the constructor New with every combination of nil and non-nil  *)
(* collaborators, and the handlers called on the server it returned.  A    *)
(* method call on a nil interface value panics.                            *)
(***************************************************************************)
\* the nil pointer or nil interface value
NilRef == [nil |-> TRUE]

\* the non-nil collaborators that main passes to New
TheConfig == [Folder |-> <<Sep, "r">>]
TheLogger == [logger |-> "structured"]
TheAuditLogger == [logger |-> "audit"]

\* New(cfg, logger, auditLogger, standardLoader)
New(cfg, logger, auditLogger, standardLoader) ==
    IF cfg = NilRef THEN [server |-> NilRef, err |-> NewErr("configuration cannot be nil")]
    ELSE IF logger = NilRef THEN [server |-> NilRef, err |-> NewErr("logger cannot be nil")]
    ELSE IF auditLogger = NilRef
        THEN [server |-> NilRef, err |-> NewErr("audit logger cannot be nil")]
    ELSE [server |-> [cfg |-> cfg, logger |-> logger, auditLogger |-> auditLogger,
                      standardLoader |-> standardLoader, server |-> "mcp.Server"],
          err |-> NoErr]

\* what a handler call comes to: it returned, or it panicked after the calls
\* it had made
Returns(ret) == [panicked |-> FALSE, ret |-> ret]
Panics(events) == [panicked |-> TRUE, ret |-> [events |-> events]]

\* (s *MCP) handleListStandards: the audit logger is called first, then the
\* repository
MCPListStandards(s, input) ==
    IF s.auditLogger = NilRef THEN Panics(<<>>)
    ELSE IF s.standardLoader = NilRef
        THEN Panics(<<LogClientRequest(ClientID, "list_standards", input)>>)
    ELSE Returns(handleListStandards(s.standardLoader, input))

\* (s *MCP) handleGetStandards: the repository is called after the input was
\* accepted
MCPGetStandards(s, input) ==
    IF s.auditLogger = NilRef THEN Panics(<<>>)
    ELSE IF "standard_names" \notin DOMAIN input
        THEN Returns(handleGetStandards(s.standardLoader, input))
    ELSE IF IsErr(convertStandardNames(input["standard_names"]).err)
        THEN Returns(handleGetStandards(s.standardLoader, input))
    ELSE IF s.standardLoader = NilRef
        THEN Panics(<<LogClientRequest(ClientID, "get_standards", input)>>)
    ELSE Returns(handleGetStandards(s.standardLoader, input))

\* the server of the held call: the one New returned, or the one the handler
\* ran on
HasServer ==
    /\ call.returned
    /\ IF call.op = "New" THEN ~IsErr(call.out.err) ELSE ~call.out.panicked

ServerOf == IF call.op = "New" THEN call.out.server ELSE call.in.server

InitNew ==
    /\ env = EnvOf(RootPath, StandardsRoot, <<>>, <<>>)
    /\ loader = NewFileStandardLoader
    /\ \E node \in { Absent, FileNode(FullText, TRUE) } :
           fs = WithNode(MkdirAll(EmptyFs, StandardsRoot),
                         Child(StandardsRoot, <<"a", ".", "m", "d">>), node)
    /\ \E cfg \in { NilRef, TheConfig }, logger \in { NilRef, TheLogger },
          auditLogger \in { NilRef, TheAuditLogger },
          standardLoader \in { NilRef, NewFileStandardLoader } :
           call = Invoke("New", [cfg |-> cfg, logger |-> logger, auditLogger |-> auditLogger,
                                 standardLoader |-> standardLoader])

ReturnNew ==
    /\ call.op = "New"
    /\ ~call.returned
    /\ call' = Return(call, New(call.in.cfg, call.in.logger, call.in.auditLogger,
                                call.in.standardLoader))
    /\ UNCHANGED <<fs, env, loader>>

ServeListStandards ==
    /\ HasServer
    /\ \E input \in ListInputs :
           call' = Return(Invoke("handleListStandards", [server |-> ServerOf, input |-> input]),
                          MCPListStandards(ServerOf, input))
    /\ UNCHANGED <<fs, env, loader>>

ServeGetStandards ==
    /\ HasServer
    /\ \E input \in GetInputs :
           call' = Return(Invoke("handleGetStandards", [server |-> ServerOf, input |-> input]),
                          MCPGetStandards(ServerOf, input))
    /\ UNCHANGED <<fs, env, loader>>

NextNew ==
    \/ ReturnNew
    \/ ServeListStandards
    \/ ServeGetStandards

SpecNew == InitNew /\ [][NextNew]_vars

\* C30: New returns an error when a collaborator is nil, a server that New
\* returned without error has its configuration, its logger, its audit logger
\* and its repository non-nil, and no handler call on it panics on a nil
\* collaborator.
C30_NoNilCollaborator ==
    /\ Returned("New") =>
           IF NilRef \in { call.in.cfg, call.in.logger, call.in.auditLogger,
                           call.in.standardLoader }
               THEN IsErr(call.out.err)
               ELSE /\ ~IsErr(call.out.err)
                    /\ call.out.server.standardLoader # NilRef
    /\ Returned("handleListStandards") \/ Returned("handleGetStandards") => ~call.out.panicked

(***************************************************************************)
(* Properties of the handlers.                                             *)
(***************************************************************************)
HandlerReturned == Returned("handleListStandards") \/ Returned("handleGetStandards")

\* the operation name a handler records
ToolName == IF call.op = "handleListStandards" THEN "list_standards" ELSE "get_standards"

\* the positions of the calls to the repository among the calls of a handler
LoaderCalls(events) == { i \in DOMAIN events : events[i].ev \in {"ListStandards", "GetStandards"} }

\* the text a handler returns when the repository gives these entries
Formatted(entries) ==
    IF call.op = "handleListStandards" THEN formatStandardInfos(entries)
    ELSE formatStandards(entries)

\* C4: the calls of a handler are one request record with the caller id, the
\* operation name and the raw input, then at most the repository call, then one
\* response record; the response carries nil and the returned error when the
\* handler fails, and the returned text, the formatted entries of the
\* repository, when it succeeds.
C4_AuditAroundRepository ==
    HandlerReturned =>
        LET events == call.out.events
            last == events[Len(events)]
        IN  /\ Len(events) \in {2, 3}
            /\ events[1] = LogClientRequest(ClientID, ToolName, call.in)
            /\ Len(events) = 3 => LoaderCalls(events) = {2}
            /\ Len(events) = 2 => IsErr(call.out.err)
            /\ last.ev = "LogClientResponse"
            /\ last.client = ClientID
            /\ IF IsErr(call.out.err)
                   THEN /\ last.result = NilText
                        /\ last.err = call.out.err
                        /\ call.out.result.IsError
                   ELSE /\ last.result = Text(call.out.result.Text)
                        /\ last.err = NoErr
                        /\ ~call.out.result.IsError
                        /\ call.out.result.Text =
                               IF call.op = "handleListStandards"
                                   THEN Formatted(ListStandards(loader).entries)
                                   ELSE Formatted(GetStandards(loader, events[2].names).entries)

\* C4 witness: get_standards for "a" failed in the repository, on a header
\* without description, after the request was recorded and the repository
\* called, and the response record carries nil and the error.
C4_Witness ==
    /\ Returned("handleGetStandards")
    /\ call.in = WithKey(NoInput, "standard_names", AnySlice(<<StringValue(<<"a">>)>>))
    /\ Len(call.out.events) = 3
    /\ call.out.events[2] = LoaderCall("GetStandards", << <<"a">> >>)
    /\ call.out.err.kind = "empty description"
    /\ call.out.events[3] = LogClientResponse(ClientID, NilText, call.out.err)

\* standard_names is missing, is not a slice, or is a []any with an element
\* that is not a string
BadStandardNames(input) ==
    \/ "standard_names" \notin DOMAIN input
    \/ input["standard_names"].type \notin {"[]string", "[]any"}
    \/ /\ input["standard_names"].type = "[]any"
       /\ \E i \in DOMAIN input["standard_names"].elems :
              input["standard_names"].elems[i].type # "string"

\* the strings of a slice, in order
NamesOf(value) == [i \in DOMAIN value.elems |-> value.elems[i].str]

InputErrors ==
    { "standard_names parameter is required", "standard_names must be an array of strings" }

\* C5: a get call whose standard_names is missing, is no slice or holds an
\* element that is not a string returns an input error without calling
\* GetStandards; any other get call calls GetStandards once, with the names of
\* the slice in their order.
C5_InputErrorsSkipRepository ==
    Returned("handleGetStandards") =>
        IF BadStandardNames(call.in)
            THEN /\ call.out.err.kind \in InputErrors
                 /\ call.out.err.wraps = <<>>
                 /\ call.out.result.IsError
                 /\ LoaderCalls(call.out.events) = {}
            ELSE /\ LoaderCalls(call.out.events) = {2}
                 /\ call.out.events[2] =
                        LoaderCall("GetStandards", NamesOf(call.in["standard_names"]))
                 /\ call.out.err.kind \notin InputErrors

\* C5 witness: standard_names was the array ["a", 1] while a.md is a valid
\* file; the handler returned the input error and made no repository call.
C5_Witness ==
    /\ Returned("handleGetStandards")
    /\ call.in = WithKey(NoInput, "standard_names",
                         AnySlice(<<StringValue(<<"a">>), NumberValue(<<"1">>)>>))
    /\ ExistsAndValid(<<"a">>)
    /\ call.out.err.kind = "standard_names must be an array of strings"
    /\ LoaderCalls(call.out.events) = {}

\* what the repository returns to the handler of the held call
RepositoryResult ==
    IF call.op = "handleListStandards" THEN ListStandards(loader)
    ELSE GetStandards(loader, call.out.events[2].names)

RepositoryFailed ==
    /\ HandlerReturned
    /\ LoaderCalls(call.out.events) # {}
    /\ IsErr(RepositoryResult.err)

\* C17: when the repository returns an error, the handler returns a result
\* marked as error whose text and structured content are both the message of
\* that error, returns the same error, and neither the result nor the response
\* record carries a formatted text.
C17_RepositoryErrorSurfaced ==
    RepositoryFailed =>
        /\ call.out.result.IsError
        /\ call.out.result.Text = ErrorText(RepositoryResult.err)
        /\ call.out.result.StructuredContent = ErrorText(RepositoryResult.err)
        /\ call.out.err = RepositoryResult.err
        /\ call.out.events[Len(call.out.events)] =
               LogClientResponse(ClientID, NilText, RepositoryResult.err)
        /\ call.out.result.Text # NoStandardsFound
        /\ ~HasPrefix(call.out.result.Text, LoadRelevantStandardsPrompt)
        /\ ~HasPrefix(call.out.result.Text, FollowStandardsPrompt)

\* C17 witness: list_standards over a valid b.md and an a.md whose header has
\* no description failed in the repository; the result is marked as error and
\* its text is the message of the error.
C17_Witness ==
    /\ Returned("handleListStandards")
    /\ ExistsAndValid(<<"b">>)
    /\ FileExists(<<"a">>)
    /\ RepositoryFailed
    /\ call.out.err.kind = "empty description"
    /\ call.out.result.IsError
    /\ call.out.result.Text = ErrorText(call.out.err)

\* strings.Join(parts, sep) for a separator of any length
RECURSIVE JoinAll(_, _)
JoinAll(parts, sep) ==
    IF parts = <<>> THEN <<>>
    ELSE IF Len(parts) = 1 THEN parts[1]
    ELSE parts[1] \o sep \o JoinAll(Tail(parts), sep)

\* the number of positions of t at which sub occurs
Occurrences(t, sub) ==
    Cardinality({ i \in 1..(Len(t) - Len(sub) + 1) : SubSeq(t, i, i + Len(sub) - 1) = sub })

BlockSeparator == <<NL, NL, "-", "-", "-", "-", "-", "-", NL, NL>>

\* the block of one standard: its header line and its content in a fence
Block(e) ==
    <<"#", "#", SP>> \o e.Name \o <<":", SP>> \o e.Description \o <<NL>>
        \o <<GRAVE, GRAVE, GRAVE, "m", "d", NL>> \o e.Content \o <<NL, GRAVE, GRAVE, GRAVE>>

\* the line of one listed standard
Line(e) == e.Name \o <<":", SP>> \o e.Description

GetSucceeded == Returned("handleGetStandards") /\ ~IsErr(call.out.err)

ListSucceeded == Returned("handleListStandards") /\ ~IsErr(call.out.err)

\* C18: the text of a successful get is "No standards found." for zero entries;
\* for k >= 1 entries it is the preamble, a blank line and the k blocks of the
\* entries in repository order, joined by the separator, which occurs k - 1
\* times: between consecutive blocks only.
C18_GetTextIsBlocksJoined ==
    GetSucceeded =>
        LET es == RepositoryResult.entries
        IN  IF es = <<>> THEN call.out.result.Text = NoStandardsFound
            ELSE /\ call.out.result.Text =
                        FollowStandardsPrompt \o <<NL, NL>>
                            \o JoinAll([i \in DOMAIN es |-> Block(es[i])], BlockSeparator)
                 /\ Occurrences(call.out.result.Text, BlockSeparator) = Len(es) - 1

\* C18 witness: get_standards for "a" and "b", both valid, returned two blocks
\* with one separator between them.
C18_Witness ==
    /\ GetSucceeded
    /\ Len(RepositoryResult.entries) = 2
    /\ EntryNames(RepositoryResult.entries) = << <<"a">>, <<"b">> >>
    /\ Occurrences(call.out.result.Text, BlockSeparator) = 1
    /\ HasPrefix(call.out.result.Text, FollowStandardsPrompt \o <<NL, NL, "#", "#", SP, "a">>)

\* C19: the text of a successful list is "No standards found." for zero
\* entries; otherwise it is the preamble, a newline and one line
\* "<Name>: <Description>" per entry of the repository, in its order, joined by
\* single newlines.
C19_ListTextIsLinesJoined ==
    ListSucceeded =>
        LET es == RepositoryResult.entries
        IN  IF es = <<>> THEN call.out.result.Text = NoStandardsFound
            ELSE /\ call.out.result.Text =
                        LoadRelevantStandardsPrompt \o <<NL>>
                            \o JoinAll([i \in DOMAIN es |-> Line(es[i])], <<NL>>)
                 /\ Occurrences(call.out.result.Text, <<NL>>) = Len(es)

\* C19 witness: list_standards over the valid files a.md and b.md returned the
\* preamble and the lines of a and of b, in that order.
C19_Witness ==
    /\ ListSucceeded
    /\ EntryNames(RepositoryResult.entries) = << <<"a">>, <<"b">> >>
    /\ call.out.result.Text =
           LoadRelevantStandardsPrompt
               \o <<NL, "a", ":", SP, "x", NL, "b", ":", SP, "x">>

\* the text of a list over the directory as it is, whatever the input
ListTextNow ==
    LET r == ListStandards(loader)
    IN  IF IsErr(r.err) THEN ErrorText(r.err)
        ELSE IF r.entries = <<>> THEN NoStandardsFound
        ELSE LoadRelevantStandardsPrompt \o <<NL>>
                 \o JoinAll([i \in DOMAIN r.entries |-> Line(r.entries[i])], <<NL>>)

RootNow == Lookup(fs, Clean(loader.standardsDir))

\* C24: when the standards directory does not exist, the list handler returns
\* "No standards found." and no error; when the standards path exists but its
\* entries cannot be read (it is not a directory, or it may not be read), the
\* failure of os.ReadDir is returned as the error.
C24_MissingRootIsEmpty ==
    Returned("handleListStandards") =>
        /\ RootNow.kind = "absent" =>
               /\ ~IsErr(call.out.err)
               /\ ~call.out.result.IsError
               /\ call.out.result.Text = NoStandardsFound
        /\ RootNow.kind \notin {"absent", "dir"} \/ (RootNow.kind = "dir" /\ ~RootNow.readable) =>
               /\ call.out.err.kind = "readdir"
               /\ call.out.err.cause \in {"ENOTDIR", "EACCES"}
               /\ call.out.result.IsError
               /\ call.out.result.Text = ErrorText(call.out.err)

\* C24 witness: list_standards ran after the standards directory was removed
\* and returned "No standards found." without error.
C24_Witness ==
    /\ Returned("handleListStandards")
    /\ RootNow.kind = "absent"
    /\ ~IsErr(call.out.err)
    /\ call.out.result.Text = NoStandardsFound
    /\ call.out.events[2] = LoaderCall("ListStandards", <<>>)

====
